---- MODULE Spec2Model ----
(***************************************************************************)
(* Model of the curve-fitting endpoint fit() of backend/api/fitting.py.    *)
(* One request is followed from its arrival through the statements of the  *)
(* handler to the response it returns.  Numbers are small integers and     *)
(* exact rationals <<num, den>>; the library calls (sympify, curve_fit,    *)
(* chi2.sf) are modelled by their contract on bounded argument sets.       *)
(* Spec follows one request.  SpecSeq lets the server answer requests one  *)
(* after another and SpecPar lets two requests run interleaved, each in    *)
(* its own frame of locals.                                                *)
(***************************************************************************)
EXTENDS Integers, Sequences, FiniteSets, TLC

\* ------------------------------------------------------------- bounds
\* longest x_data / y_data / y_errors array of a request
MaxLen == 4
\* largest value of a fitted coefficient returned by the optimizer
MaxCoef == 2
\* requests the server has answered before the one followed
MaxServed == 2

\* ------------------------------------------------------- JSON values
Null == [t |-> "null"]
Absent == [t |-> "absent"]
\* a JSON value numpy cannot convert to a float array (e.g. ["a"])
Bad == [t |-> "bad"]
Arr(s) == [t |-> "arr", v |-> s]
Str(s) == [t |-> "str", v |-> s]
\* Python's None
None == [t |-> "None"]

\* ----------------------------------------------------------- rationals
\* <<n, d>> with d > 0 in lowest terms; <<1, 0>> is +inf, <<-1, 0>> is -inf,
\* <<0, 0>> is nan (IEEE results of a division by zero).
RECURSIVE Gcd(_, _)
Gcd(a, b) == IF b = 0 THEN a ELSE Gcd(b, a % b)

Abs(a) == IF a < 0 THEN -a ELSE a

Sgn(a) == IF a < 0 THEN -1 ELSE IF a > 0 THEN 1 ELSE 0

Rat(n, d) ==
    IF d = 0 THEN <<Sgn(n), 0>>
    ELSE LET g == Gcd(Abs(n), Abs(d))
             s == IF d < 0 THEN -1 ELSE 1
         IN  <<(s * n) \div g, (s * d) \div g>>

Inf == <<1, 0>>

RAdd(a, b) ==
    IF a[2] = 0 /\ b[2] = 0 THEN (IF a = b THEN a ELSE <<0, 0>>)
    ELSE IF a[2] = 0 THEN a
    ELSE IF b[2] = 0 THEN b
    ELSE Rat(a[1] * b[2] + b[1] * a[2], a[2] * b[2])

RMul(a, b) == Rat(a[1] * b[1], a[2] * b[2])

RDiv(a, b) ==
    IF b[2] = 0 THEN (IF a[2] = 0 THEN <<0, 0>> ELSE <<0, 1>>)
    ELSE Rat(a[1] * b[2], a[2] * b[1])

RSub(a, b) == RAdd(a, <<-b[1], b[2]>>)

RECURSIVE RSum(_)
RSum(s) == IF s = <<>> THEN <<0, 1>> ELSE RAdd(Head(s), RSum(Tail(s)))

RECURSIVE ISum(_)
ISum(s) == IF s = <<>> THEN 0 ELSE Head(s) + ISum(Tail(s))

\* ------------------------------------------------------- request bodies
Range(s) == {s[i] : i \in DOMAIN s}

\* x arrays: 0, 1, ..., n-1 for every length, and one array of zero span
XArrays == {[i \in 1..n |-> i - 1] : n \in 0..MaxLen} \cup {<<1, 1>>}

\* y arrays: constant, ramp and alternating data of every length
YArrays ==
    UNION {{[i \in 1..n |-> 0], [i \in 1..n |-> 1], [i \in 1..n |-> i - 1],
            [i \in 1..n |-> i % 2]} : n \in 0..MaxLen}

\* y_errors: omitted, null, empty, non-numeric, uniform sigma 1 or 2 of
\* every length, and arrays holding a zero or a negative entry
ErrArrays ==
    {[i \in 1..n |-> s] : n \in 1..MaxLen, s \in {1, 2}}
        \cup {<<1, 0>>, <<1, -1>>}

YErrorValues == {Absent, Null, Arr(<<>>), Bad} \cup {Arr(e) : e \in ErrArrays}

Selectors ==
    {"linear", "quadratic", "cubic", "power", "exponential", "sinusoidal",
     "custom", "LINEAR", "Custom", "gaussian", ""}

\* model: omitted, null or a number (no .lower()), or a string
ModelValues == {Absent, Null, Bad} \cup {Str(s) : s \in Selectors}

ExprTexts == {"a*x+b", "b + a*x", "a*y+b", "b*x+a*b", "k*x", "x", "a*x+", "(a*x", ""}

CustomExprValues == {Absent, Null} \cup {Str(s) : s \in ExprTexts}

GuessValues == {Absent} \cup {Arr([i \in 1..n |-> 1]) : n \in 0..3}

\* A request body is the JSON object of the POST, or no object at all.
Body(x, y, e, m, c, g) ==
    [t |-> "object", x_data |-> x, y_data |-> y, y_errors |-> e, model |-> m,
     custom_expr |-> c, initial_guess |-> g]

NoBody == [t |-> "none"]

DataValues(arrays) == {Absent, Bad} \cup {Arr(a) : a \in arrays}

UniformErr(y) == IF y.t = "arr" /\ Len(y.v) > 0
                 THEN {Arr([i \in 1..Len(y.v) |-> 1])} ELSE {}

\* every shape of x_data and y_data against every selector
ShapeBodies ==
    {Body(x, y, e, m, Absent, Absent) :
        x \in DataValues(XArrays), y \in DataValues(YArrays),
        e \in {Absent, Bad}, m \in ModelValues}

\* every y_errors value against well-formed data
WeightData ==
    UNION {{<<x, y>> : y \in {z \in YArrays : Len(z) = Len(x)}} : x \in XArrays}

WeightBodies ==
    {Body(Arr(d[1]), Arr(d[2]), e, m, Absent, g) :
        d \in WeightData, e \in YErrorValues,
        m \in {Absent, Str("linear"), Str("quadratic"), Str("power"),
               Str("sinusoidal")},
        g \in {Absent, Arr(<<1, 1, 1>>)}}

\* every custom expression and initial guess
CustomData ==
    UNION {{<<x, [i \in 1..n |-> i % 2]>> : n \in {Len(x), 1}} : x \in XArrays}

CustomBodies ==
    UNION {{Body(Arr(d[1]), Arr(d[2]), e, m, c, g) :
                e \in {Absent} \cup UniformErr(Arr(d[2])),
                m \in {Str("custom"), Str("Custom")},
                c \in CustomExprValues, g \in GuessValues} :
           d \in CustomData}

\* data lying exactly on the line y = 2x + 1
LineData == {<<[i \in 1..n |-> i - 1], [i \in 1..n |-> 2 * (i - 1) + 1]>> : n \in 2..MaxLen}

LineBodies ==
    UNION {{Body(Arr(d[1]), Arr(d[2]), e, m, Absent, Absent) :
                e \in {Absent} \cup UniformErr(Arr(d[2])),
                m \in {Absent, Str("linear")}} :
           d \in LineData}

Bodies == {NoBody} \cup ShapeBodies \cup WeightBodies \cup CustomBodies \cup LineBodies

\* The requests of SpecSeq: data off every line, data on a line and two
\* points, each without uncertainties (0) and with uniform uncertainties,
\* and a request that is refused, to be served around them.
SeqData ==
    {<<<<0, 1, 2>>, <<1, 0, 1>>, {0, 1, 2}>>,
     <<<<0, 1, 2>>, <<1, 3, 5>>, {0, 2}>>,
     <<<<0, 1>>, <<0, 1>>, {0, 1}>>}

SeqErr(y, sg) == IF sg = 0 THEN Absent ELSE Arr([i \in 1..Len(y) |-> sg])

SeqBodies ==
    UNION {{Body(Arr(d[1]), Arr(d[2]), SeqErr(d[2], sg), Absent, Absent, Absent) :
                sg \in d[3]} :
           d \in SeqData}
      \cup {Body(Arr(<<0, 1, 2>>), Arr(<<1, 0, 1>>), Absent, Str("gaussian"), Absent, Absent)}

\* --------------------------------------------------------------- state
VARIABLES
    pc,             \* the statement group of fit() about to run
    data,           \* request.get_json()
    x_data, y_data, y_errors, model_type, custom_expr, initial_guess,
    model, param_names, model_name, p0,
    popt, pcov,
    result,         \* the locals of lines 212-245, once computed
    response,       \* what fit() returned: [status, body], or None
    stages,         \* the stages the request has entered, in order
    calls,          \* how often sympify and curve_fit were called
    served,         \* the requests this server answered before, with their responses
    lib,            \* what curve_fit returned for the calls made so far
    other,          \* the frame of the request running beside the one followed
    ask,            \* the locals of a call of ChatAgent.ask, app/chat_agent.py
    dominant        \* the locals of a call of _find_dominant_frequencies, backend/api/fourier.py

fitVars == <<pc, data, x_data, y_data, y_errors, model_type, custom_expr,
             initial_guess, model, param_names, model_name, p0, popt, pcov,
             result, response, stages, calls, served, lib, other>>

vars == <<fitVars, ask, dominant>>

parsed == <<x_data, y_data, y_errors, model_type, custom_expr, initial_guess>>
compiled == <<model, param_names, model_name>>

\* the locals of a call of fit() that has not started
IdleFrame ==
    [pc |-> "idle", data |-> None, x_data |-> None, y_data |-> None,
     y_errors |-> None, model_type |-> None, custom_expr |-> None,
     initial_guess |-> None, model |-> None, param_names |-> None,
     model_name |-> None, p0 |-> None, popt |-> None, pcov |-> None,
     result |-> None, response |-> None, stages |-> <<>>,
     calls |-> [sympify |-> 0, curve_fit |-> 0]]

\* no call of ChatAgent.ask, none of _find_dominant_frequencies
NoCall == [pc |-> "idle"]

\* no request has arrived at POST /fit
FitIdle ==
    /\ pc = "idle"
    /\ data = None
    /\ x_data = None /\ y_data = None /\ y_errors = None
    /\ model_type = None /\ custom_expr = None /\ initial_guess = None
    /\ model = None /\ param_names = None /\ model_name = None /\ p0 = None
    /\ popt = None /\ pcov = None /\ result = None
    /\ response = None
    /\ stages = <<>>
    /\ calls = [sympify |-> 0, curve_fit |-> 0]
    /\ served = <<>>
    /\ lib = <<>>
    /\ other = IdleFrame

Init == FitIdle /\ ask = NoCall /\ dominant = NoCall

\* ------------------------------------------------------------ responses
\* a bug to tell from ErrorBody: an error object that also carries a result field
ErrorBodyWithResult(msg, detail) ==
    [error |-> [t |-> "str", msg |-> msg, detail |-> detail], parameters |-> <<>>]

ErrorBody(msg, detail) == [error |-> [t |-> "str", msg |-> msg, detail |-> detail]]

\* return jsonify({"error": ...}), status
Fail(status, msg, detail) ==
    /\ response' = [status |-> status, body |-> ErrorBody(msg, detail)]
    /\ pc' = "done"

\* except Exception as e: return jsonify({"error": str(e)}), 500
Raise500(exc) == Fail(500, "", exc)

\* A request arrives at POST /fit.
Arrive ==
    /\ pc = "idle"
    /\ \E b \in Bodies : data' = b
    /\ pc' = "parse"
    /\ UNCHANGED <<ask, dominant, served, lib, other, parsed, compiled, p0, popt, pcov, result,
                   response, stages, calls>>

\* ------------------------------------------------------- lines 116-126
\* dict.get(key, default): the default only when the key is missing
Get(obj, key, default) == IF obj[key] = Absent THEN default ELSE obj[key]

\* a JSON value as the Python value get_json() yields
FromJson(v) ==
    CASE v.t = "null" -> None
      [] v.t = "arr" -> [t |-> "list", v |-> v.v]
      [] OTHER -> v

\* Python truthiness of the values a request can hold
Truthy(v) ==
    CASE v.t = "None" -> FALSE
      [] v.t = "str" -> v.v # ""
      [] v.t \in {"list", "ndarray"} -> v.v # <<>>
      [] OTHER -> TRUE

\* str.lower() on the selectors of the model
Lower(s) ==
    CASE s = "LINEAR" -> "linear"
      [] s = "Custom" -> "custom"
      [] OTHER -> s

\* np.array(v, dtype=float) raises ValueError on a non-numeric value
CanConvert(v) == v.t = "list"

NdArray(v) == [t |-> "ndarray", v |-> v.v]

\* 'linear' when the key is missing
DefaultModel == Str("linear")

\* the exception lines 116-126 raise for this body, or "" when none
ParseException(d) ==
    IF d.t # "object" THEN "'NoneType' object has no attribute 'get'"
    ELSE IF ~CanConvert(FromJson(Get(d, "x_data", Arr(<<>>))))
         THEN "could not convert x_data to float"
    ELSE IF ~CanConvert(FromJson(Get(d, "y_data", Arr(<<>>))))
         THEN "could not convert y_data to float"
    ELSE IF /\ Truthy(FromJson(Get(d, "y_errors", Null)))
            /\ ~CanConvert(FromJson(Get(d, "y_errors", Null)))
         THEN "could not convert y_errors to float"
    ELSE IF Get(d, "model", DefaultModel).t # "str"
         THEN "object has no attribute 'lower'"
    ELSE ""

\* y_errors = data.get('y_errors'); if y_errors: y_errors = np.array(...)
ParseYErrors(d) ==
    LET e == FromJson(Get(d, "y_errors", Null))
    IN  IF Truthy(e) THEN NdArray(e) ELSE e

\* data = request.get_json() ... initial_guess = data.get('initial_guess')
ParseRequest ==
    /\ pc = "parse"
    /\ stages' = Append(stages, "Validate")
    /\ IF ParseException(data) # ""
       THEN /\ Raise500(ParseException(data))
            /\ UNCHANGED parsed
       ELSE /\ x_data' = Get(data, "x_data", Arr(<<>>)).v
            /\ y_data' = Get(data, "y_data", Arr(<<>>)).v
            /\ y_errors' = ParseYErrors(data)
            /\ model_type' = Lower(Get(data, "model", DefaultModel).v)
            /\ custom_expr' = FromJson(Get(data, "custom_expr", Null))
            /\ initial_guess' = FromJson(Get(data, "initial_guess", Null))
            /\ pc' = "lengths"
            /\ UNCHANGED response
    /\ UNCHANGED <<ask, dominant, served, lib, other, data, compiled, p0, popt, pcov, result, calls>>

\* ------------------------------------------------------- lines 128-132
\* a bug to tell from TooFewPoints: only an empty array is refused
NoPoints(x) == Len(x) < 1

\* len(x_data) < 2
TooFewPoints(x) == Len(x) < 2

\* a bug to tell from CheckLengths: the minimum-point check made first
CheckLengthsMinFirst ==
    /\ pc = "lengths"
    /\ IF TooFewPoints(x_data)
       THEN Fail(400, "At least 2 data points are required", "")
       ELSE IF Len(x_data) # Len(y_data)
       THEN Fail(400, "x_data and y_data must have the same length", "")
       ELSE pc' = "dispatch" /\ UNCHANGED response
    /\ UNCHANGED <<ask, dominant, served, lib, other, data, parsed, compiled, p0, popt, pcov, result, stages, calls>>

CheckLengths ==
    /\ pc = "lengths"
    /\ IF Len(x_data) # Len(y_data)
       THEN Fail(400, "x_data and y_data must have the same length", "")
       ELSE IF TooFewPoints(x_data)
       THEN Fail(400, "At least 2 data points are required", "")
       ELSE pc' = "dispatch" /\ UNCHANGED response
    /\ UNCHANGED <<ask, dominant, served, lib, other, data, parsed, compiled, p0, popt, pcov, result, stages, calls>>

\* ------------------------------------------------------- lines 135-200
\* the def model(x, ...) of each built-in branch, with its parameter names
\* and display form
BuiltinNames ==
    {"linear", "quadratic", "cubic", "power", "exponential", "sinusoidal"}

\* a bug to tell from BuiltinParamNames: the sinusoidal parameters named as
\* the arguments of its def model are
BuiltinParamNamesOfArgs(mt) ==
    CASE mt = "linear" -> <<"a", "b">>
      [] mt = "quadratic" -> <<"a", "b", "c">>
      [] mt = "cubic" -> <<"a", "b", "c", "d">>
      [] mt = "power" -> <<"a", "b">>
      [] mt = "exponential" -> <<"a", "b">>
      [] mt = "sinusoidal" -> <<"a", "b", "c", "d">>

BuiltinParamNames(mt) ==
    CASE mt = "linear" -> <<"a", "b">>
      [] mt = "quadratic" -> <<"a", "b", "c">>
      [] mt = "cubic" -> <<"a", "b", "c", "d">>
      [] mt = "power" -> <<"a", "b">>
      [] mt = "exponential" -> <<"a", "b">>
      [] mt = "sinusoidal" -> <<"A", "ω", "φ", "D">>

\* the signature of each def model: x and then the fitted arguments
BuiltinArgs(mt) ==
    CASE mt \in {"linear", "power", "exponential"} -> <<"x", "a", "b">>
      [] mt = "quadratic" -> <<"x", "a", "b", "c">>
      [] mt \in {"cubic", "sinusoidal"} -> <<"x", "a", "b", "c", "d">>

BuiltinModelName(mt) ==
    CASE mt = "linear" -> "y = a·x + b"
      [] mt = "quadratic" -> "y = a·x² + b·x + c"
      [] mt = "cubic" -> "y = a·x³ + b·x² + c·x + d"
      [] mt = "power" -> "y = a·x^b"
      [] mt = "exponential" -> "y = a·exp(b·x)"
      [] mt = "sinusoidal" -> "y = A·sin(ω·x + φ) + D"

\* expression trees
Sym(n) == [op |-> "sym", name |-> n]
Add(l, r) == [op |-> "add", l |-> l, r |-> r]
Mul(l, r) == [op |-> "mul", l |-> l, r |-> r]

\* sympify(custom_expr) on the expression texts of the model: the tree, or
\* the SympifyError the parser raises
Sympify(text) ==
    CASE text = "a*x+b" ->
            [ok |-> TRUE, expr |-> Add(Mul(Sym("a"), Sym("x")), Sym("b"))]
      [] text = "b + a*x" ->
            [ok |-> TRUE, expr |-> Add(Sym("b"), Mul(Sym("a"), Sym("x")))]
      [] text = "a*y+b" ->
            [ok |-> TRUE, expr |-> Add(Mul(Sym("a"), Sym("y")), Sym("b"))]
      [] text = "b*x+a*b" ->
            [ok |-> TRUE,
             expr |-> Add(Mul(Sym("b"), Sym("x")), Mul(Sym("a"), Sym("b")))]
      [] text = "k*x" -> [ok |-> TRUE, expr |-> Mul(Sym("k"), Sym("x"))]
      [] text = "x" -> [ok |-> TRUE, expr |-> Sym("x")]
      [] OTHER -> [ok |-> FALSE, msg |-> "SympifyError: could not parse"]

\* expr.free_symbols: a set, in no order
RECURSIVE FreeSymbols(_)
FreeSymbols(e) ==
    IF e.op = "sym" THEN {e.name}
    ELSE FreeSymbols(e.l) \cup FreeSymbols(e.r)

\* the symbols of a tree in the order the text names them, repeats kept
RECURSIVE SymbolsInText(_)
SymbolsInText(e) ==
    IF e.op = "sym" THEN <<e.name>>
    ELSE SymbolsInText(e.l) \o SymbolsInText(e.r)

\* the code point of a one-letter name: Python orders str by code point
Ord(n) ==
    CASE n = "A" -> 65 [] n = "D" -> 68
      [] n = "a" -> 97 [] n = "b" -> 98 [] n = "c" -> 99 [] n = "d" -> 100
      [] n = "k" -> 107 [] n = "x" -> 120 [] n = "y" -> 121

\* sorted(names, key=str)
RECURSIVE SortedByStr(_)
SortedByStr(S) ==
    IF S = {} THEN <<>>
    ELSE LET m == CHOOSE n \in S : \A o \in S : Ord(n) <= Ord(o)
         IN  <<m>> \o SortedByStr(S \ {m})

\* a bug to tell from ParamSyms: the parameters as the text names them
ParamSymsInTextOrder(expr) ==
    SelectSeq(SymbolsInText(expr), LAMBDA n : n # "x")

\* param_syms = sorted([s for s in free_vars if str(s) != 'x'], key=str)
ParamSyms(expr) == SortedByStr({n \in FreeSymbols(expr) : n # "x"})

\* lambdify([symbols('x')] + param_syms, expr, 'numpy')
Lambdify(args, expr) == [kind |-> "custom", args |-> args, expr |-> expr]

\* a bug to tell from CustomExprMissing: only a missing expression is refused
CustomExprIsNone(expr) == expr = None

\* not custom_expr
CustomExprMissing(expr) == ~Truthy(expr)

\* a bug to tell from ContainsX: any free symbol will do
ContainsSomeSymbol(free_vars) == free_vars # {}

\* symbols('x') in free_vars
ContainsX(free_vars) == "x" \in free_vars

\* a bug to tell from InvalidExpression: the parser's message left out
InvalidExpressionNoMessage(e) == Fail(400, "Invalid custom expression: ", "")

\* except Exception as e: return jsonify({"error": f"Invalid custom expression: {str(e)}"}), 400
InvalidExpression(e) == Fail(400, "Invalid custom expression: ", e)

\* The branch of the if/elif chain: def model, param_names, model_name.  A
\* string built from pieces (an f-string) is the tuple of its pieces.
Compile ==
    /\ pc = "dispatch"
    /\ IF model_type \in BuiltinNames
       THEN /\ model' = [kind |-> model_type, args |-> BuiltinArgs(model_type)]
            /\ param_names' = BuiltinParamNames(model_type)
            /\ model_name' = <<BuiltinModelName(model_type)>>
            /\ stages' = Append(stages, "Compile")
            /\ pc' = "guess"
            /\ UNCHANGED <<response, calls>>
       ELSE IF model_type = "custom"
       THEN IF CustomExprMissing(custom_expr)
            THEN /\ Fail(400, "custom_expr is required for custom model", "")
                 /\ UNCHANGED <<compiled, stages, calls>>
            ELSE LET parse == Sympify(custom_expr.v)
                 IN  /\ stages' = Append(stages, "Compile")
                     /\ calls' = [calls EXCEPT !.sympify = @ + 1]
                     /\ IF ~parse.ok
                        THEN /\ InvalidExpression(parse.msg)
                             /\ UNCHANGED compiled
                        ELSE IF ~ContainsX(FreeSymbols(parse.expr))
                        THEN /\ Fail(400, "Custom expression must contain variable 'x'", "")
                             /\ UNCHANGED compiled
                        ELSE /\ param_names' = ParamSyms(parse.expr)
                             /\ model' = Lambdify(<<"x">> \o ParamSyms(parse.expr),
                                                  parse.expr)
                             /\ model_name' = <<"y = ", custom_expr.v>>
                             /\ pc' = "guess"
                             /\ UNCHANGED response
       ELSE /\ Fail(400, "Unknown model type: ", model_type)
            /\ UNCHANGED <<compiled, stages, calls>>
    /\ UNCHANGED <<ask, dominant, served, lib, other, data, parsed, p0, popt, pcov, result>>

\* ------------------------------------------------- p0, lines 140-195
List(s) == [t |-> "list", v |-> s]

RECURSIVE SeqMax(_)
SeqMax(s) ==
    IF Len(s) = 1 THEN s[1]
    ELSE LET m == SeqMax(Tail(s)) IN IF s[1] > m THEN s[1] ELSE m

RECURSIVE SeqMin(_)
SeqMin(s) ==
    IF Len(s) = 1 THEN s[1]
    ELSE LET m == SeqMin(Tail(s)) IN IF s[1] < m THEN s[1] ELSE m

\* np.mean
Mean(s) == Rat(ISum(s), Len(s))

\* 2 * np.pi / span, kept symbolic
TwoPiOver(span) == [t |-> "2pi/", span |-> span]

\* a bug to tell from SinusoidalGuess: the frequency guess without its
\* fallback, which numpy evaluates to inf for a zero span
SinusoidalGuessUnguarded(x, y) ==
    <<Rat(SeqMax(y) - SeqMin(y), 2),
      IF SeqMax(x) # SeqMin(x) THEN TwoPiOver(SeqMax(x) - SeqMin(x)) ELSE Inf,
      <<0, 1>>,
      Mean(y)>>

\* amp_guess, freq_guess, 0, np.mean(y_data)
SinusoidalGuess(x, y) ==
    <<Rat(SeqMax(y) - SeqMin(y), 2),
      IF SeqMax(x) # SeqMin(x) THEN TwoPiOver(SeqMax(x) - SeqMin(x)) ELSE <<1, 1>>,
      <<0, 1>>,
      Mean(y)>>

\* a bug to tell from InitialGuess: the parameters of the last successful fit
\* kept at module level and used as the starting point of a polynomial fit
InitialGuessWarmStart(mt, x, y, guess) ==
    CASE mt \in {"linear", "quadratic", "cubic"} ->
            IF served # <<>> /\ served[Len(served)].response.status = 200
            THEN List(served[Len(served)].response.body.parameters)
            ELSE None
      [] mt = "power" -> List(<< <<1, 1>>, <<1, 1>> >>)
      [] mt = "exponential" -> List(<< <<1, 1>>, <<1, 10>> >>)
      [] mt = "sinusoidal" -> List(SinusoidalGuess(x, y))
      [] mt = "custom" -> guess

\* a bug to tell from InitialGuess: the caller's initial_guess, when given,
\* used for the polynomial models as well
InitialGuessFromCaller(mt, x, y, guess) ==
    CASE mt \in {"linear", "quadratic", "cubic"} -> guess
      [] mt = "power" -> List(<< <<1, 1>>, <<1, 1>> >>)
      [] mt = "exponential" -> List(<< <<1, 1>>, <<1, 10>> >>)
      [] mt = "sinusoidal" -> List(SinusoidalGuess(x, y))
      [] mt = "custom" -> guess

\* the p0 each branch assigns
InitialGuess(mt, x, y, guess) ==
    CASE mt \in {"linear", "quadratic", "cubic"} -> None
      [] mt = "power" -> List(<< <<1, 1>>, <<1, 1>> >>)
      [] mt = "exponential" -> List(<< <<1, 1>>, <<1, 10>> >>)
      [] mt = "sinusoidal" -> List(SinusoidalGuess(x, y))
      [] mt = "custom" -> guess

Guess ==
    /\ pc = "guess"
    /\ p0' = InitialGuess(model_type, x_data, y_data, initial_guess)
    /\ stages' = Append(stages, "Guess")
    /\ pc' = "regress"
    /\ UNCHANGED <<ask, dominant, served, lib, other, data, parsed, compiled, popt, pcov, result, response, calls>>

\* ------------------------------------------- the model functions applied
RECURSIVE Pow(_, _)
\* x**n on integers, n >= 0 (0**0 is 1)
Pow(x, n) == IF n = 0 THEN 1 ELSE x * Pow(x, n - 1)

\* np.exp and np.sin where they are exact
Exp(z) == CASE z = 0 -> 1

Sin(z) == CASE z = 0 -> 0

\* the value of an expression tree under a binding of its symbols
RECURSIVE EvalExpr(_, _)
EvalExpr(e, env) ==
    CASE e.op = "sym" -> env[e.name]
      [] e.op = "add" -> EvalExpr(e.l, env) + EvalExpr(e.r, env)
      [] e.op = "mul" -> EvalExpr(e.l, env) * EvalExpr(e.r, env)

\* the arguments of a call bound to the names of the signature, by position
Bind(args, values) ==
    [n \in Range(args) |-> values[CHOOSE i \in DOMAIN args : args[i] = n]]

\* a bug to tell from ModelAt: the linear model with its parameters swapped,
\* b * x + a
ModelAtSwapped(f, x, q) ==
    CASE f.kind = "linear" -> q[2] * x + q[1]
      [] f.kind = "quadratic" -> q[1] * Pow(x, 2) + q[2] * x + q[3]
      [] f.kind = "cubic" ->
            q[1] * Pow(x, 3) + q[2] * Pow(x, 2) + q[3] * x + q[4]
      [] f.kind = "power" -> q[1] * Pow(x, q[2])
      [] f.kind = "exponential" -> q[1] * Exp(q[2] * x)
      [] f.kind = "sinusoidal" -> q[1] * Sin(q[2] * x + q[3]) + q[4]
      [] f.kind = "custom" -> EvalExpr(f.expr, Bind(f.args, <<x>> \o q))

\* model(x, *q) at one point
ModelAt(f, x, q) ==
    CASE f.kind = "linear" -> q[1] * x + q[2]
      [] f.kind = "quadratic" -> q[1] * Pow(x, 2) + q[2] * x + q[3]
      [] f.kind = "cubic" ->
            q[1] * Pow(x, 3) + q[2] * Pow(x, 2) + q[3] * x + q[4]
      [] f.kind = "power" -> q[1] * Pow(x, q[2])
      [] f.kind = "exponential" -> q[1] * Exp(q[2] * x)
      [] f.kind = "sinusoidal" -> q[1] * Sin(q[2] * x + q[3]) + q[4]
      [] f.kind = "custom" -> EvalExpr(f.expr, Bind(f.args, <<x>> \o q))

\* model(x_data, *popt), elementwise
ModelOn(f, xs, q) == [i \in DOMAIN xs |-> ModelAt(f, xs[i], q)]

\* ------------------------------------------------------- lines 203-209
\* maxfev of both curve_fit calls
MaxFev == 10000

\* How line 205 or 207 calls curve_fit: sigma and absolute_sigma are passed
\* only when y_errors is not None.
CurveFitCall(f, x, y, errs, guess) ==
    IF errs # None
    THEN [f |-> f, xdata |-> x, ydata |-> y, sigma |-> errs, p0 |-> guess,
          absolute_sigma |-> TRUE, maxfev |-> MaxFev]
    ELSE [f |-> f, xdata |-> x, ydata |-> y, sigma |-> None, p0 |-> guess,
          absolute_sigma |-> FALSE, maxfev |-> MaxFev]

\* the number of fitted arguments of the model function
Arity(f) == Len(f.args) - 1

\* the number of parameters curve_fit fits: len(p0), or the arity of f
NumFitParams(c) == IF c.p0 # None THEN Len(c.p0.v) ELSE Arity(c.f)

\* The exception curve_fit raises whatever the data ("" when none): it cannot
\* count the parameters of f(x), sigma has another shape than ydata, f is
\* called with len(p0) arguments it does not take, or there are more
\* parameters than points.  A sigma of one entry is refused by some releases
\* of the library and broadcast by others (SigmaOfOne).
SigmaOfOne(c) == c.sigma # None /\ Len(c.sigma.v) = 1 /\ Len(c.ydata) # 1

CurveFitMustRaise(c) ==
    IF c.p0 = None /\ Arity(c.f) = 0
    THEN "Unable to determine number of fit parameters."
    ELSE IF c.sigma # None /\ Len(c.sigma.v) # Len(c.ydata) /\ ~SigmaOfOne(c)
    THEN "sigma has incorrect shape."
    ELSE IF NumFitParams(c) # Arity(c.f)
    THEN "model() takes a different number of positional arguments"
    ELSE IF NumFitParams(c) > Len(c.ydata)
    THEN "The number of func parameters must not exceed the number of data points"
    ELSE ""

\* The parameter vectors the optimizer may return: integers up to MaxCoef,
\* with the arguments of exp and sin kept at 0, where they are exact.
Coefs == 0..MaxCoef

PoptCandidates(f) ==
    {q \in [1..Arity(f) -> Coefs] :
        /\ f.kind = "exponential" => q[2] = 0
        /\ f.kind = "sinusoidal" => q[2] = 0 /\ q[3] = 0}

\* The built-in polynomials are linear in their parameters: when the data
\* lie exactly on the model curve for some parameter vector and the weights
\* are sound, the least-squares problem has residual zero there and the
\* optimizer returns such a vector.
LinearInParams(f) == f.kind \in {"linear", "quadratic", "cubic"}

SoundSigma(c) ==
    \/ c.sigma = None
    \/ /\ Len(c.sigma.v) = Len(c.ydata)
       /\ \A i \in DOMAIN c.sigma.v : c.sigma.v[i] > 0

ExactFits(c) == {q \in PoptCandidates(c.f) : ModelOn(c.f, c.xdata, q) = c.ydata}

Returned(q) ==
    [raised |-> FALSE, popt |-> q, pcov |-> [t |-> "matrix", shape |-> <<Len(q), Len(q)>>]]

\* What curve_fit does: raise, or return (popt, pcov); the covariance is
\* kept symbolic.
CurveFitOutcomes(c) ==
    IF CurveFitMustRaise(c) # ""
    THEN {[raised |-> TRUE, msg |-> CurveFitMustRaise(c)]}
    ELSE IF LinearInParams(c.f) /\ SoundSigma(c) /\ ExactFits(c) # {}
    THEN {Returned(q) : q \in ExactFits(c)}
    ELSE {[raised |-> TRUE, msg |-> "Optimal parameters not found"]}
         \cup (IF SigmaOfOne(c)
               THEN {[raised |-> TRUE, msg |-> "sigma has incorrect shape."]}
               ELSE {})
         \cup {Returned(q) : q \in PoptCandidates(c.f)}

\* curve_fit is a function of its arguments: a call made again gives what it
\* gave before.  A sigma of one positive value for every point weights all
\* residuals alike, so the call has the minimiser of the call without sigma.
UniformSigma(c) ==
    /\ c.sigma # None /\ Len(c.sigma.v) = Len(c.ydata)
    /\ \A i \in DOMAIN c.sigma.v : c.sigma.v[i] = c.sigma.v[1] /\ c.sigma.v[i] > 0

LibKey(c) ==
    IF UniformSigma(c) THEN [c EXCEPT !.sigma = None, !.absolute_sigma = FALSE] ELSE c

CurveFit(c) == IF LibKey(c) \in DOMAIN lib THEN {lib[LibKey(c)]} ELSE CurveFitOutcomes(c)

Remember(c, out) == (LibKey(c) :> out) @@ lib

\* a bug to tell from FitFailed: no handler around the call, so that the
\* exception reaches the handler of line 265
FitFailedUncaught(e) == Raise500(e)

\* except Exception as e: return jsonify({"error": f"Fitting failed: {str(e)}"}), 400
FitFailed(e) == Fail(400, "Fitting failed: ", e)

\* a bug to tell from Regress: after a failure the regression is attempted
\* once more, from a starting point of ones
RegressFromOnes ==
    /\ pc = "regress"
    /\ stages' = Append(stages, "Regress")
    /\ calls' = [calls EXCEPT !.curve_fit = @ + 1]
    /\ LET c == CurveFitCall(model, x_data, y_data, y_errors, p0)
       IN  \E out \in CurveFit(c) :
             /\ lib' = Remember(c, out)
             /\ IF out.raised
                THEN /\ IF calls.curve_fit = 0
                        THEN /\ pc' = "regress"
                             /\ p0' = List([i \in 1..Arity(model) |-> <<1, 1>>])
                             /\ UNCHANGED response
                        ELSE FitFailed(out.msg) /\ UNCHANGED p0
                     /\ UNCHANGED <<popt, pcov>>
                ELSE /\ popt' = out.popt
                     /\ pcov' = out.pcov
                     /\ pc' = "evaluate"
                     /\ UNCHANGED <<response, p0>>
    /\ UNCHANGED <<ask, dominant, served, other, data, parsed, compiled, result>>

\* a bug to tell from Regress: a failed regression is attempted again
RegressWithRetry ==
    /\ pc = "regress"
    /\ stages' = Append(stages, "Regress")
    /\ calls' = [calls EXCEPT !.curve_fit = @ + 1]
    /\ LET c == CurveFitCall(model, x_data, y_data, y_errors, p0)
       IN  \E out \in CurveFit(c) :
             /\ lib' = Remember(c, out)
             /\ IF out.raised
                THEN /\ IF calls.curve_fit = 0
                        THEN pc' = "regress" /\ UNCHANGED response
                        ELSE FitFailed(out.msg)
                     /\ UNCHANGED <<popt, pcov>>
                ELSE /\ popt' = out.popt
                     /\ pcov' = out.pcov
                     /\ pc' = "evaluate"
                     /\ UNCHANGED response
    /\ UNCHANGED <<ask, dominant, served, other, data, parsed, compiled, p0, result>>

Regress ==
    /\ pc = "regress"
    /\ stages' = Append(stages, "Regress")
    /\ calls' = [calls EXCEPT !.curve_fit = @ + 1]
    /\ LET c == CurveFitCall(model, x_data, y_data, y_errors, p0)
       IN  \E out \in CurveFit(c) :
             /\ lib' = Remember(c, out)
             /\ IF out.raised
                THEN /\ FitFailed(out.msg)
                     /\ UNCHANGED <<popt, pcov>>
                ELSE /\ popt' = out.popt
                     /\ pcov' = out.pcov
                     /\ pc' = "evaluate"
                     /\ UNCHANGED response
    /\ UNCHANGED <<ask, dominant, served, other, data, parsed, compiled, p0, result>>

\* ------------------------------------------------------- lines 211-245
\* perr = np.sqrt(np.diag(pcov)), kept symbolic
Perr(cov) == [i \in 1..cov.shape[1] |-> [t |-> "sqrt", of |-> <<"pcov", i, i>>]]

\* a bug to tell from Residuals: the prediction minus the data
ResidualsOfPrediction(y, pred) == [i \in DOMAIN y |-> pred[i] - y[i]]

\* y_data - y_pred
Residuals(y, pred) == [i \in DOMAIN y |-> y[i] - pred[i]]

\* ss_res = np.sum((y_data - y_pred)**2)
SsRes(y, pred) == ISum([i \in DOMAIN y |-> (y[i] - pred[i]) * (y[i] - pred[i])])

\* ss_tot = np.sum((y_data - np.mean(y_data))**2)
SsTot(y) ==
    RSum([i \in DOMAIN y |->
            RMul(RSub(<<y[i], 1>>, Mean(y)), RSub(<<y[i], 1>>, Mean(y)))])

\* a bug to tell from RSquared: the quotient taken whatever ss_tot is
RSquaredUnguarded(ss_res, ss_tot) == RSub(<<1, 1>>, RDiv(<<ss_res, 1>>, ss_tot))

\* r_squared = 1 - (ss_res / ss_tot) if ss_tot != 0 else 0
RSquared(ss_res, ss_tot) ==
    IF ss_tot # <<0, 1>> THEN RSub(<<1, 1>>, RDiv(<<ss_res, 1>>, ss_tot))
    ELSE <<0, 1>>

\* a bug to tell from Dof: x counted among the parameters
DofCountingX(n_data, n_params) == n_data - (n_params + 1)

\* dof = n_data - n_params
Dof(n_data, n_params) == n_data - n_params

\* numpy broadcasting: an array of one entry stands for every index
At(a, i) == IF Len(a) = 1 THEN a[1] ELSE a[i]

\* a bug to tell from Chi2Total: the uncertainties left out of the sum
Chi2TotalUnweighted(y, pred, errs, ss_res) == <<ss_res, 1>>

\* a bug to tell from Chi2Total: the squared residual divided by the
\* uncertainty, not by its square
Chi2TotalSigmaNotSquared(y, pred, errs, ss_res) ==
    IF errs # None
    THEN RSum([i \in DOMAIN y |->
                 Rat((y[i] - pred[i]) * (y[i] - pred[i]), At(errs.v, i))])
    ELSE <<ss_res, 1>>

\* chi2_total, lines 226-230
Chi2Total(y, pred, errs, ss_res) ==
    IF errs # None
    THEN RSum([i \in DOMAIN y |->
                 Rat((y[i] - pred[i]) * (y[i] - pred[i]),
                     At(errs.v, i) * At(errs.v, i))])
    ELSE <<ss_res, 1>>

\* a bug to tell from ReducedChi2: the division guarded against zero only
ReducedChi2Unguarded(chi2_total, dof) ==
    IF dof # 0 THEN RDiv(chi2_total, <<dof, 1>>) ELSE <<0, 1>>

\* reduced_chi2 = chi2_total / dof if dof > 0 else float('inf')
ReducedChi2(chi2_total, dof) ==
    IF dof > 0 THEN RDiv(chi2_total, <<dof, 1>>) ELSE Inf

\* stats.chi2.sf(chi2_total, dof), kept symbolic
Chi2Sf(chi2_total, dof) == [t |-> "num", sf |-> <<chi2_total, dof>>]

\* a bug to tell from PValue: a p-value whenever dof > 0
PValueUnweighted(chi2_total, dof, errs) ==
    IF dof > 0 THEN Chi2Sf(chi2_total, dof) ELSE None

\* p_value, lines 235-238
PValue(chi2_total, dof, errs) ==
    IF dof > 0 /\ errs # None THEN Chi2Sf(chi2_total, dof) ELSE None

\* the sample count of np.linspace in line 241
NFit == 200

\* x_fit = np.linspace(x_data.min(), x_data.max(), 200), kept symbolic
XFit(xs) == [t |-> "linspace", lo |-> SeqMin(xs), hi |-> SeqMax(xs), num |-> NFit]

\* y_fit = model(x_fit, *popt), kept symbolic
YFit(f, xfit, q) == [t |-> "curve", f |-> f.kind, x |-> xfit, popt |-> q]

Evaluate ==
    /\ pc = "evaluate"
    /\ stages' = Append(stages, "Evaluate")
    /\ LET y_pred == ModelOn(model, x_data, popt)
           ss_res == SsRes(y_data, y_pred)
           ss_tot == SsTot(y_data)
           n_params == Len(popt)
           n_data == Len(x_data)
           dof == Dof(n_data, n_params)
           chi2_total == Chi2Total(y_data, y_pred, y_errors, ss_res)
       IN  result' =
             [perr |-> Perr(pcov), y_pred |-> y_pred, ss_res |-> ss_res,
              ss_tot |-> ss_tot, r_squared |-> RSquared(ss_res, ss_tot),
              n_params |-> n_params, n_data |-> n_data, dof |-> dof,
              chi2_total |-> chi2_total,
              reduced_chi2 |-> ReducedChi2(chi2_total, dof),
              p_value |-> PValue(chi2_total, dof, y_errors),
              x_fit |-> XFit(x_data),
              y_fit |-> YFit(model, XFit(x_data), popt),
              residuals |-> Residuals(y_data, y_pred)]
    /\ pc' = "respond"
    /\ UNCHANGED <<ask, dominant, served, lib, other, data, parsed, compiled, p0, popt, pcov, response, calls>>

\* ------------------------------------------------------- lines 247-263
\* jsonify of a value that may be None
ToJson(v) == IF v = None THEN Null ELSE v

\* the fields of the success object
SuccessBody(names, name, q, r) ==
    [parameters |-> q, uncertainties |-> r.perr, parameter_names |-> names,
     r_squared |-> r.r_squared, chi_squared |-> r.chi2_total,
     reduced_chi_squared |-> r.reduced_chi2, p_value |-> ToJson(r.p_value),
     dof |-> r.dof, n_data |-> r.n_data, n_params |-> r.n_params,
     model_name |-> name, x_fit |-> r.x_fit, y_fit |-> r.y_fit,
     residuals |-> r.residuals, error |-> Null]

Respond ==
    /\ pc = "respond"
    /\ stages' = Append(stages, "Respond")
    /\ response' = [status |-> 200,
                    body |-> SuccessBody(param_names, model_name, popt, result)]
    /\ pc' = "done"
    /\ UNCHANGED <<ask, dominant, served, lib, other, data, parsed, compiled, p0, popt, pcov, result, calls>>

Next ==
    \/ Arrive
    \/ ParseRequest
    \/ CheckLengths
    \/ Compile
    \/ Guess
    \/ Regress
    \/ Evaluate
    \/ Respond

Spec == Init /\ [][Next]_vars

\* ------------------------------------------- the server around fit()
\* Every call of fit() has its own locals (a frame); nothing of fit() is
\* kept at module level.
Frame ==
    [pc |-> pc, data |-> data, x_data |-> x_data, y_data |-> y_data,
     y_errors |-> y_errors, model_type |-> model_type,
     custom_expr |-> custom_expr, initial_guess |-> initial_guess,
     model |-> model, param_names |-> param_names, model_name |-> model_name,
     p0 |-> p0, popt |-> popt, pcov |-> pcov, result |-> result,
     response |-> response, stages |-> stages, calls |-> calls]

\* the locals become those of frame fr
Load(fr) ==
    /\ pc' = fr.pc /\ data' = fr.data
    /\ x_data' = fr.x_data /\ y_data' = fr.y_data /\ y_errors' = fr.y_errors
    /\ model_type' = fr.model_type /\ custom_expr' = fr.custom_expr
    /\ initial_guess' = fr.initial_guess
    /\ model' = fr.model /\ param_names' = fr.param_names
    /\ model_name' = fr.model_name /\ p0' = fr.p0
    /\ popt' = fr.popt /\ pcov' = fr.pcov /\ result' = fr.result
    /\ response' = fr.response /\ stages' = fr.stages /\ calls' = fr.calls

\* The request is answered and the worker is free for the next one: a new
\* call of fit() starts from fresh locals.
NextRequest ==
    /\ pc = "done"
    /\ Len(served) < MaxServed
    /\ served' = Append(served, [data |-> data, response |-> response])
    /\ Load(IdleFrame)
    /\ UNCHANGED <<ask, dominant, lib, other>>

\* A request of SpecSeq arrives at POST /fit.
ArriveSeq ==
    /\ pc = "idle"
    /\ \E b \in SeqBodies : data' = b
    /\ pc' = "parse"
    /\ UNCHANGED <<ask, dominant, served, lib, other, parsed, compiled, p0, popt, pcov, result,
                   response, stages, calls>>

NextSeq ==
    \/ ArriveSeq
    \/ ParseRequest
    \/ CheckLengths
    \/ Compile
    \/ Guess
    \/ Regress
    \/ Evaluate
    \/ Respond
    \/ NextRequest

\* requests answered one after another by one worker
SpecSeq == Init /\ [][NextSeq]_vars

\* The requests of SpecPar: a linear and a quadratic fit of different data,
\* and a request that is refused.
ParBodies ==
    {Body(Arr(<<0, 1, 2>>), Arr(<<1, 0, 1>>), Absent, Absent, Absent, Absent),
     Body(Arr(<<0, 1, 2>>), Arr(<<1, 3, 5>>), Absent, Str("quadratic"), Absent, Absent),
     Body(Arr(<<0, 1>>), Arr(<<0, 1, 0>>), Absent, Absent, Absent, Absent)}

\* A request of SpecPar arrives at POST /fit.
ArrivePar ==
    /\ pc = "idle"
    /\ \E b \in ParBodies : data' = b
    /\ pc' = "parse"
    /\ UNCHANGED <<ask, dominant, served, lib, other, parsed, compiled, p0, popt, pcov, result,
                   response, stages, calls>>

\* a bug to tell from Switch: the compiled model kept at module level, one
\* for both requests
SwitchSharingModel ==
    /\ pc # "idle" \/ other.pc # "idle"
    /\ other' = Frame
    /\ Load([other EXCEPT !.model = model])
    /\ UNCHANGED <<ask, dominant, served, lib>>

\* The scheduler runs the other request: the two calls of fit() exchange
\* the processor, each with its own locals.
Switch ==
    /\ pc # "idle" \/ other.pc # "idle"
    /\ other' = Frame
    /\ Load(other)
    /\ UNCHANGED <<ask, dominant, served, lib>>

NextPar ==
    \/ ArrivePar
    \/ ParseRequest
    \/ CheckLengths
    \/ Compile
    \/ Guess
    \/ Regress
    \/ Evaluate
    \/ Respond
    \/ NextRequest
    \/ Switch

\* two requests in flight at a time, their statements interleaved
SpecPar == Init /\ [][NextPar]_vars

\* ================================================== ChatAgent.ask
\* app/chat_agent.py: ask() hands the messages to the provider chosen at
\* import time and retries the call.  Texts are sequences of characters, so
\* that str.lower(), str.strip() and the substring test "in" are computed.

\* ------------------------------------------------------------- texts
UpperCase ==
    <<"A", "B", "C", "D", "E", "F", "G", "H", "I", "J", "K", "L", "M", "N",
      "O", "P", "Q", "R", "S", "T", "U", "V", "W", "X", "Y", "Z">>

LowerCase ==
    <<"a", "b", "c", "d", "e", "f", "g", "h", "i", "j", "k", "l", "m", "n",
      "o", "p", "q", "r", "s", "t", "u", "v", "w", "x", "y", "z">>

\* str.lower()
LowerOf(s) ==
    [i \in DOMAIN s |->
        IF \E k \in DOMAIN UpperCase : UpperCase[k] = s[i]
        THEN LowerCase[CHOOSE k \in DOMAIN UpperCase : UpperCase[k] = s[i]]
        ELSE s[i]]

\* sub in s
Occurs(sub, s) ==
    \E i \in 0..(Len(s) - Len(sub)) : \A j \in DOMAIN sub : s[i + j] = sub[j]

\* str.strip()
RECURSIVE Strip(_)
Strip(s) ==
    IF s = <<>> THEN s
    ELSE IF s[1] = " " THEN Strip(Tail(s))
    ELSE IF s[Len(s)] = " " THEN Strip(SubSeq(s, 1, Len(s) - 1))
    ELSE s

\* str(e) of the exceptions the Gemini client raises
\* google.genai ClientError, code 429
ResourceExhausted ==
    <<"4", "2", "9", " ", "R", "E", "S", "O", "U", "R", "C", "E", "_", "E",
      "X", "H", "A", "U", "S", "T", "E", "D">>

\* google.genai ServerError, code 500
Internal ==
    <<"5", "0", "0", " ", "I", "N", "T", "E", "R", "N", "A", "L">>

\* google.genai ServerError, code 503
Unavailable ==
    <<"5", "0", "3", " ", "U", "N", "A", "V", "A", "I", "L", "A", "B", "L",
      "E">>

\* google.genai ServerError, code 504
DeadlineExceeded ==
    <<"5", "0", "4", " ", "D", "E", "A", "D", "L", "I", "N", "E", "_", "E",
      "X", "C", "E", "E", "D", "E", "D">>

\* google.genai ClientError, code 404: the model name is unknown
NotFound ==
    <<"4", "0", "4", " ", "N", "O", "T", "_", "F", "O", "U", "N", "D", ".",
      " ", "n", "o", "t", " ", "s", "u", "p", "p", "o", "r", "t", "e", "d",
      " ", "f", "o", "r", " ", "g", "e", "n", "e", "r", "a", "t", "e", "C",
      "o", "n", "t", "e", "n", "t">>

\* google.genai ClientError, code 400
InvalidArgument ==
    <<"4", "0", "0", " ", "I", "N", "V", "A", "L", "I", "D", "_", "A", "R",
      "G", "U", "M", "E", "N", "T">>

\* httpx.ConnectError
ConnectionRefused ==
    <<"C", "o", "n", "n", "e", "c", "t", "i", "o", "n", " ", "r", "e", "f",
      "u", "s", "e", "d">>

\* httpx.ReadTimeout
TimedOut ==
    <<"t", "i", "m", "e", "d", " ", "o", "u", "t">>

\* "The AI is busy or temporarily unavailable. Please try again."
BusyText ==
    <<"T", "h", "e", " ", "A", "I", " ", "i", "s", " ", "b", "u", "s", "y",
      " ", "o", "r", " ", "t", "e", "m", "p", "o", "r", "a", "r", "i", "l",
      "y", " ", "u", "n", "a", "v", "a", "i", "l", "a", "b", "l", "e", ".",
      " ", "P", "l", "e", "a", "s", "e", " ", "t", "r", "y", " ", "a", "g",
      "a", "i", "n", ".">>
\* -------------------------------------------------------- the provider
\* largest max_retries an agent is constructed with
MaxRetries == 2

\* the agents after __init__: self.provider (CHAT_PROVIDER, "gemini" by
\* default) and self.max_retries (any int)
Agents ==
    {[pc |-> "idle", provider |-> p, max_retries |-> r] :
        p \in {"gemini", "openai"}, r \in -2..MaxRetries}

\* response.text / completion.choices[0].message.content: None or a string
ReplyTexts ==
    {None, [t |-> "str", v |-> <<>>], [t |-> "str", v |-> <<"o", "k">>],
     [t |-> "str", v |-> <<" ", "o", "k", " ">>]}

Exc(cls, status_code, text) ==
    [t |-> "exc", cls |-> cls, status_code |-> status_code, text |-> text]

\* what client.models.generate_content raises: the API errors of google.genai
\* with the code and status of the response, and the errors of the transport
GeminiErrors ==
    {Exc("ClientError", 429, ResourceExhausted), Exc("ServerError", 500, Internal),
     Exc("ServerError", 503, Unavailable), Exc("ServerError", 504, DeadlineExceeded),
     Exc("ClientError", 404, NotFound), Exc("ClientError", 400, InvalidArgument),
     Exc("ConnectError", 0, ConnectionRefused), Exc("ReadTimeout", 0, TimedOut)}

\* the classes of the openai module and of Python, each with its base class
Base ==
    [RateLimitError |-> "APIStatusError", InternalServerError |-> "APIStatusError",
     BadRequestError |-> "APIStatusError", AuthenticationError |-> "APIStatusError",
     APIStatusError |-> "APIError", APITimeoutError |-> "APIConnectionError",
     APIConnectionError |-> "APIError", APIError |-> "OpenAIError",
     OpenAIError |-> "Exception", IndexError |-> "Exception",
     Exception |-> "BaseException"]

\* c is cls or derives from it
RECURSIVE IsSubclass(_, _)
IsSubclass(c, cls) ==
    \/ c = cls
    \/ c \in DOMAIN Base /\ IsSubclass(Base[c], cls)

\* what client.chat.completions.create raises, and the IndexError of
\* choices[0] on a completion without choices
OpenaiErrors ==
    {Exc("RateLimitError", 429, <<>>), Exc("APIConnectionError", 0, <<>>),
     Exc("APITimeoutError", 0, <<>>), Exc("InternalServerError", 500, <<>>),
     Exc("InternalServerError", 503, <<>>), Exc("BadRequestError", 400, <<>>),
     Exc("AuthenticationError", 401, <<>>), Exc("IndexError", 0, <<>>)}

\* ------------------------------------------------------- lines 148-157
\* ask(): the call starts in the implementation of self.provider
Ask ==
    /\ ask.pc = "idle"
    /\ ask' = [pc |-> IF ask.provider = "gemini" THEN "_ask_gemini" ELSE "_ask_openai",
               provider |-> ask.provider, max_retries |-> ask.max_retries,
               attempt |-> 0, last_exc |-> None,
               calls |-> 0, replies |-> <<>>, raised |-> <<>>, slept |-> <<>>,
               outcome |-> None]
    /\ UNCHANGED <<fitVars, dominant>>

\* ------------------------------------------------- lines 198 and 227
\* range(max(1, self.max_retries + 1))
NumAttempts(max_retries) == IF max_retries + 1 >= 1 THEN max_retries + 1 ELSE 1

\* the seconds of time.sleep(1 * (2 ** attempt))
Backoff(attempt) == 1 * (2 ^ attempt)

\* return (response.text or "").strip()
Return(text) ==
    ask' = [ask EXCEPT !.pc = "done", !.calls = @ + 1, !.replies = Append(@, text),
                       !.outcome = [t |-> "return",
                                    value |-> Strip(IF text = None THEN <<>> ELSE text.v)]]

\* time.sleep(...) in an except clause that has set last_exc = e; the loop
\* goes on with the next attempt
SleepAndRetry(e) ==
    ask' = [ask EXCEPT !.calls = @ + 1, !.raised = Append(@, e),
                       !.last_exc = e, !.slept = Append(@, Backoff(ask.attempt)),
                       !.attempt = @ + 1]

\* raise, or an exception no except clause catches: e leaves ask()
Reraise(e, last) ==
    ask' = [ask EXCEPT !.pc = "done", !.calls = @ + 1, !.raised = Append(@, e),
                       !.last_exc = last,
                       !.outcome = [t |-> "raise", exc |-> e, cause |-> None]]

\* ------------------------------------------------------- lines 198-213
\* line 210: "rate" in err_str or "429" in err_str or "500" in err_str or "503" in err_str
GeminiRetries(e) ==
    LET err_str == LowerOf(e.text)
    IN  \/ Occurs(<<"r", "a", "t", "e">>, err_str)
        \/ Occurs(<<"4", "2", "9">>, err_str)
        \/ Occurs(<<"5", "0", "0">>, err_str)
        \/ Occurs(<<"5", "0", "3">>, err_str)

\* one attempt of the loop of _ask_gemini
AskGemini ==
    /\ ask.pc = "_ask_gemini"
    /\ ask.attempt < NumAttempts(ask.max_retries)
    /\ \/ \E text \in ReplyTexts : Return(text)
       \/ \E e \in GeminiErrors :
            IF GeminiRetries(e) THEN SleepAndRetry(e) ELSE Reraise(e, e)
    /\ UNCHANGED <<fitVars, dominant>>

\* ------------------------------------------------------- lines 227-242
\* the except clauses of lines 234 and 237-240 that sleep
OpenaiRetries(e) ==
    \/ IsSubclass(e.cls, "RateLimitError") \/ IsSubclass(e.cls, "APIConnectionError")
    \/ IsSubclass(e.cls, "APITimeoutError")
    \/ IsSubclass(e.cls, "APIStatusError") /\ 500 <= e.status_code /\ e.status_code < 600

\* one attempt of the loop of _ask_openai
AskOpenai ==
    /\ ask.pc = "_ask_openai"
    /\ ask.attempt < NumAttempts(ask.max_retries)
    /\ \/ \E text \in ReplyTexts : Return(text)
       \/ \E e \in OpenaiErrors :
            IF OpenaiRetries(e) THEN SleepAndRetry(e) ELSE Reraise(e, ask.last_exc)
    /\ UNCHANGED <<fitVars, dominant>>

\* ------------------------------------------------- lines 214 and 243
\* raise RuntimeError("The AI is busy ...") from last_exc
RaiseBusy ==
    /\ ask.pc \in {"_ask_gemini", "_ask_openai"}
    /\ ask.attempt >= NumAttempts(ask.max_retries)
    /\ ask' = [ask EXCEPT !.pc = "done",
                          !.outcome = [t |-> "raise",
                                       exc |-> Exc("RuntimeError", 0, BusyText),
                                       cause |-> ask.last_exc]]
    /\ UNCHANGED <<fitVars, dominant>>

InitAsk == FitIdle /\ dominant = NoCall /\ ask \in Agents

NextAsk ==
    \/ Ask
    \/ AskGemini
    \/ AskOpenai
    \/ RaiseBusy

\* the thread that called ask() runs on: sleep and the provider call return
SpecAsk == InitAsk /\ [][NextAsk]_vars /\ WF_vars(NextAsk)

\* ======================================== _find_dominant_frequencies
\* backend/api/fourier.py: the peaks analyze() reports.  Frequencies and
\* magnitudes are small integers; the margin is kept in hundredths of a
\* hertz, so that 2% of the frequency range is exact.

\* most bins of a spectrum
MaxBins == 4
\* largest magnitude of a bin
MaxMag == 2
\* largest n_top asked for
MaxTop == 3

\* freqs: the bins np.fft.rfftfreq yields for a spacing of 1 or 2, and a
\* spectrum that has a negative frequency
FreqArrays ==
    {[i \in 1..n |-> (i - 1) * step] : n \in 0..MaxBins, step \in {1, 2}}
        \cup {<<-1, 0, 1>>}

\* magnitudes: one per bin
MagnitudeArrays(n) == [1..n -> 0..MaxMag]

\* the calls of the function: min_margin_hz is None (as analyze() calls) or
\* a number of hertz, n_top the integer the request names as n_dominant
DominantCalls ==
    UNION {{[pc |-> "idle", freqs |-> f, magnitudes |-> m, n_top |-> t,
             min_margin_hz |-> g] :
                m \in MagnitudeArrays(Len(f)), t \in 0..MaxTop,
                g \in {None, [t |-> "num", v |-> 1], [t |-> "num", v |-> 2]}} :
           f \in FreqArrays}

\* ---------------------------------------------------------- lines 20-22
\* freq_range = freqs[-1] - freqs[0] if len(freqs) > 1 else 1.0
FreqRange(freqs) == IF Len(freqs) > 1 THEN freqs[Len(freqs)] - freqs[1] ELSE 1

\* max(freq_range * 0.02, freqs[1] - freqs[0] if len(freqs) > 1 else 0.01),
\* in hundredths of a hertz
DefaultMargin(freqs) ==
    LET a == FreqRange(freqs) * 2
        b == IF Len(freqs) > 1 THEN (freqs[2] - freqs[1]) * 100 ELSE 1
    IN  IF a >= b THEN a ELSE b

\* min_margin_hz after line 22, in hundredths of a hertz
MinMarginHz(freqs, min_margin_hz) ==
    IF min_margin_hz = None THEN DefaultMargin(freqs) ELSE min_margin_hz.v * 100

\* ------------------------------------------------------------- line 25
\* np.argsort(magnitudes)[::-1]: the bins by descending magnitude, bins of
\* equal magnitude in any order (the sort is not stable)
ArgsortDescending(magnitudes) ==
    {s \in [DOMAIN magnitudes -> DOMAIN magnitudes] :
        /\ \A i, j \in DOMAIN s : i # j => s[i] # s[j]
        /\ \A i, j \in DOMAIN s : i < j => magnitudes[s[i]] >= magnitudes[s[j]]}

\* lines 34-38: freq is closer than the margin to a selected frequency
TooClose(freq, selected, margin) ==
    \E k \in DOMAIN selected : Abs(freq - selected[k].freq) * 100 < margin

\* lines 17-27: the empty spectrum returns []; otherwise the margin and the
\* order of the candidates are fixed and the loop begins
EnterDominant ==
    /\ dominant.pc = "idle"
    /\ IF Len(dominant.freqs) = 0
       THEN dominant' = [dominant EXCEPT !.pc = "done"] @@ [ret |-> <<>>]
       ELSE \E s \in ArgsortDescending(dominant.magnitudes) :
              dominant' = [dominant EXCEPT !.pc = "loop"]
                          @@ [margin |-> MinMarginHz(dominant.freqs, dominant.min_margin_hz),
                              sorted_idx |-> s, k |-> 1, selected |-> <<>>]
    /\ UNCHANGED <<fitVars, ask>>

\* lines 28-42: one pass of for idx in sorted_idx
Consider ==
    /\ dominant.pc = "loop"
    /\ dominant.k <= Len(dominant.sorted_idx)
    /\ LET idx == dominant.sorted_idx[dominant.k]
           freq == dominant.freqs[idx]
           entry == [freq |-> freq, magnitude |-> dominant.magnitudes[idx], idx |-> idx - 1]
       IN  IF freq <= 0 \/ TooClose(freq, dominant.selected, dominant.margin)
           THEN dominant' = [dominant EXCEPT !.k = @ + 1]
           ELSE IF Len(dominant.selected) + 1 >= dominant.n_top
           THEN dominant' = [dominant EXCEPT !.selected = Append(@, entry), !.pc = "return"]
           ELSE dominant' = [dominant EXCEPT !.selected = Append(@, entry), !.k = @ + 1]
    /\ UNCHANGED <<fitVars, ask>>

\* line 44: return selected, after the break or the last candidate
ReturnSelected ==
    /\ \/ dominant.pc = "return"
       \/ dominant.pc = "loop" /\ dominant.k > Len(dominant.sorted_idx)
    /\ dominant' = [dominant EXCEPT !.pc = "done"] @@ [ret |-> dominant.selected]
    /\ UNCHANGED <<fitVars, ask>>

InitDominant == FitIdle /\ ask = NoCall /\ dominant \in DominantCalls

NextDominant ==
    \/ EnterDominant
    \/ Consider
    \/ ReturnSelected

SpecDominant == InitDominant /\ [][NextDominant]_vars

\* ================================================================ claims
\* How the responses of fit() read in the terms of the error taxonomy: the
\* handler tells its failures apart by status and message only.
Responded == response # None

IsSuccess == Responded /\ response.status = 200 /\ response.body.error = Null

IsFailure == Responded /\ response.body.error # Null

ValidationMessages ==
    {"x_data and y_data must have the same length",
     "At least 2 data points are required",
     "custom_expr is required for custom model",
     "Unknown model type: "}

ErrorKind ==
    IF response.status = 500 THEN "InternalFault"
    ELSE IF response.body.error.msg \in ValidationMessages THEN "ValidationError"
    ELSE IF response.body.error.msg = "Custom expression must contain variable 'x'"
    THEN "MissingIndependentVariable"
    ELSE IF response.body.error.msg = "Invalid custom expression: "
    THEN "InvalidExpressionError"
    ELSE IF response.body.error.msg = "Fitting failed: " THEN "FitConvergenceError"
    ELSE "Other"

\* The request as the caller sent it.  A request of the interface (section 6)
\* has number arrays for x_data, y_data and y_errors and a string selector;
\* a missing array counts as empty.
HasBody == data # None /\ data.t = "object"

IsArrayOrMissing(v) == v.t \in {"arr", "absent"}

SentLen(v) == IF v.t = "arr" THEN Len(v.v) ELSE 0

WellTyped ==
    /\ HasBody
    /\ IsArrayOrMissing(data.x_data) /\ IsArrayOrMissing(data.y_data)
    /\ data.y_errors.t \in {"arr", "absent", "null"}
    /\ data.model.t \in {"str", "absent"}

\* The selector the request names: the seven selectors are recognised in any
\* letter case, and a request without the field selects linear.
SevenSelectors ==
    {"linear", "quadratic", "cubic", "power", "exponential", "sinusoidal", "custom"}

Spells(s, k) == s = k \/ (s = "LINEAR" /\ k = "linear") \/ (s = "Custom" /\ k = "custom")

SentSelector ==
    IF data.model.t = "absent" THEN "linear"
    ELSE IF \E k \in SevenSelectors : Spells(data.model.v, k)
    THEN CHOOSE k \in SevenSelectors : Spells(data.model.v, k)
    ELSE "unknown"

NoCustomExpr == data.custom_expr.t \in {"absent", "null"} \/ data.custom_expr = Str("")

DataValid ==
    /\ WellTyped
    /\ SentLen(data.x_data) = SentLen(data.y_data)
    /\ SentLen(data.x_data) >= 2

StageOrder == <<"Validate", "Compile", "Guess", "Regress", "Evaluate", "Respond">>

IsPrefix(s, t) == Len(s) <= Len(t) /\ \A i \in 1..Len(s) : s[i] = t[i]

\* C1: a request enters its stages in the order Validate, Compile, Guess,
\* Regress, Evaluate, Respond, none twice; a request answered before the
\* last stage is answered with an error object, a request that ran them all
\* with a result; and once answered, no further stage runs.
C1_StagesInOrder ==
    /\ [](/\ IsPrefix(stages, StageOrder)
          /\ Responded => (stages = StageOrder <=> IsSuccess)
          /\ Responded /\ stages # StageOrder => IsFailure /\ DOMAIN response.body = {"error"})
    /\ [][Responded => stages' = stages /\ response' = response]_vars

\* C1 witness: a regression that failed, answered without Evaluate or Respond
C1_Witness ==
    /\ pc = "done" /\ IsFailure
    /\ stages = <<"Validate", "Compile", "Guess", "Regress">>

ResultFields ==
    {"parameters", "uncertainties", "parameter_names", "r_squared", "chi_squared",
     "reduced_chi_squared", "p_value", "dof", "n_data", "n_params", "model_name",
     "x_fit", "y_fit", "residuals"}

SuccessShape(b) ==
    /\ DOMAIN b = ResultFields \cup {"error"}
    /\ b.error = Null
    /\ b.dof \in Int /\ b.n_data \in Nat /\ b.n_params \in Nat
    /\ Len(b.parameters) = b.n_params /\ Len(b.uncertainties) = b.n_params
    /\ Len(b.parameter_names) = b.n_params /\ Len(b.residuals) = b.n_data
    /\ b.r_squared \in Int \X Nat /\ b.chi_squared \in Int \X Nat
    /\ b.reduced_chi_squared \in Int \X Nat
    /\ b.p_value = Null \/ b.p_value.t = "num"
    /\ b.x_fit.num = NFit /\ b.y_fit.x = b.x_fit /\ Len(b.model_name) >= 1

FailureShape(b) ==
    /\ DOMAIN b = {"error"}
    /\ b.error.t = "str"

\* C2: every response is either the success object, with all fourteen result
\* fields and error = null, or an object whose only field is a string error.
C2_TwoShapes ==
    Responded =>
        /\ SuccessShape(response.body) \/ FailureShape(response.body)
        /\ ~(SuccessShape(response.body) /\ FailureShape(response.body))
        /\ response.status = 200 <=> SuccessShape(response.body)

\* C2 witness: a success object whose p_value is a number
C2_Witness == IsSuccess /\ response.body.p_value # Null

\* what C3 lists as invalid
C3_Invalid ==
    \/ SentLen(data.x_data) # SentLen(data.y_data)
    \/ SentLen(data.x_data) < 2
    \/ SentSelector = "unknown"
    \/ SentSelector = "custom" /\ NoCustomExpr

\* C3: a request of the interface with x_data and y_data of different
\* lengths, fewer than 2 points, a selector that is none of the seven, or
\* selector custom without a custom_expr never reaches the regression and is
\* answered with a validation error.
C3_ValidationRejects ==
    WellTyped /\ C3_Invalid =>
        /\ "Regress" \notin Range(stages)
        /\ calls.curve_fit = 0
        /\ pc \notin {"regress", "evaluate", "respond"}
        /\ Responded => response.status = 400 /\ ErrorKind = "ValidationError"

\* C3 witness: an unknown selector on otherwise valid data, rejected
C3_Witness ==
    /\ pc = "done" /\ DataValid /\ SentSelector = "unknown"
    /\ ErrorKind = "ValidationError"

\* the parameters a compiled custom expression has: its symbols other than x
TextParams(expr) == Range(SymbolsInText(expr)) \ {"x"}

\* C4 as claimed: for a custom model, a caller's initial_guess of another
\* length than the compiled parameter list is refused as a validation error
\* and curve_fit is never called for that request.
C4_GuessLengthValidated ==
    /\ DataValid /\ SentSelector = "custom" /\ model # None
    /\ data.initial_guess.t = "arr"
    /\ Len(data.initial_guess.v) # Len(param_names)
    => /\ calls.curve_fit = 0
       /\ Responded => ErrorKind = "ValidationError"

\* C5: selector custom without a custom_expr, on valid x_data and y_data, is
\* answered with the validation error "custom_expr is required" and sympify
\* is never called.
C5_NoExprNoParse ==
    DataValid /\ SentSelector = "custom" /\ NoCustomExpr =>
        /\ calls.sympify = 0
        /\ "Compile" \notin Range(stages)
        /\ Responded =>
             /\ response.status = 400 /\ ErrorKind = "ValidationError"
             /\ response.body.error.msg = "custom_expr is required for custom model"

\* C5 witness: such a request (an empty expression), answered
C5_Witness ==
    /\ pc = "done" /\ DataValid /\ SentSelector = "custom"
    /\ data.custom_expr = Str("") /\ ErrorKind = "ValidationError"

\* the expression texts of the model in which x is not free
TextsWithoutX == {"a*y+b"}

\* C6: a custom expression in which x is not a free symbol is answered with
\* the MissingIndependentVariable error, and neither Guess nor Regress runs.
C6_MissingX ==
    /\ DataValid /\ SentSelector = "custom"
    /\ data.custom_expr.t = "str" /\ data.custom_expr.v \in TextsWithoutX
    => /\ "Guess" \notin Range(stages) /\ "Regress" \notin Range(stages)
       /\ calls.curve_fit = 0
       /\ pc \notin {"guess", "regress", "evaluate", "respond"}
       /\ Responded => ErrorKind = "MissingIndependentVariable"

\* C6 witness: a*y+b answered
C6_Witness ==
    /\ pc = "done" /\ DataValid /\ SentSelector = "custom"
    /\ data.custom_expr = Str("a*y+b")
    /\ ErrorKind = "MissingIndependentVariable"

\* C7: the parameter list of a compiled custom expression is the set of its
\* symbols other than x, each once, in ascending order of name, whatever the
\* order of the text (a*x+b and b + a*x both give a, b), and the compiled
\* function takes x and then the parameters in that order.
C7_ParamsSorted ==
    model # None /\ model.kind = "custom" =>
        /\ Range(param_names) = TextParams(model.expr)
        /\ Len(param_names) = Cardinality(TextParams(model.expr))
        /\ \A i, j \in DOMAIN param_names :
              i < j => Ord(param_names[i]) < Ord(param_names[j])
        /\ "x" \notin Range(param_names)
        /\ model.args = <<"x">> \o param_names
        /\ custom_expr.v \in {"a*x+b", "b + a*x"} => param_names = <<"a", "b">>

\* C7 witness: b + a*x compiled to a, b and fitted
C7_Witness ==
    /\ IsSuccess /\ model.kind = "custom" /\ custom_expr = Str("b + a*x")
    /\ response.body.parameter_names = <<"a", "b">>

\* y-uncertainties were supplied with the request
Supplied == data.y_errors.t = "arr"

\* C8: in a success response p_value is a number exactly when y-uncertainties
\* were supplied and dof > 0, and null otherwise.
C8_PValueOnlyWeighted ==
    IsSuccess =>
        /\ response.body.p_value # Null <=> Supplied /\ response.body.dof > 0
        /\ response.body.p_value # Null =>
             response.body.p_value =
                [t |-> "num", sf |-> <<response.body.chi_squared, response.body.dof>>]

\* C8 witness: a weighted fit with dof = 0, whose p_value is null
C8_Witness ==
    IsSuccess /\ Supplied /\ response.body.dof = 0 /\ response.body.p_value = Null

ClaimedNParams ==
    CASE SentSelector \in {"linear", "power", "exponential"} -> 2
      [] SentSelector = "quadratic" -> 3
      [] SentSelector \in {"cubic", "sinusoidal"} -> 4
      [] SentSelector = "custom" -> Cardinality(TextParams(Sympify(data.custom_expr.v).expr))

\* C10: in a success response dof = n_data - n_params, n_data is the number
\* of points sent and n_params the parameter count of the model.
C10_Dof ==
    IsSuccess =>
        /\ response.body.dof = response.body.n_data - response.body.n_params
        /\ response.body.n_data = SentLen(data.x_data)
        /\ response.body.n_params = ClaimedNParams

\* C10 witness: a four-parameter model fitted to four points
C10_Witness ==
    /\ IsSuccess /\ response.body.n_params = 4 /\ response.body.n_data = 4
    /\ response.body.dof = 0 /\ SentSelector = "sinusoidal"

\* the y values the caller sent, and whether they are all one value
SentY == data.y_data.v

AllEqual(s) == \A i, j \in DOMAIN s : s[i] = s[j]

\* n times the total sum of squares of s about its mean: n * sum(s^2) - sum(s)^2
NTimesSsTot(s) == Len(s) * ISum([i \in DOMAIN s |-> s[i] * s[i]]) - ISum(s) * ISum(s)

\* the sum of the squares of the entries of s
SumOfSquares(s) == ISum([i \in DOMAIN s |-> s[i] * s[i]])

\* C11: in a success response r_squared is 0 when all y values sent are
\* identical (SS_tot = 0) and 1 - SS_res/SS_tot otherwise, SS_res being the
\* sum of the squared residuals and SS_tot the sum of the squared deviations
\* of y from its mean; a request with identical y values whose regression
\* returned is answered with a success, not with an error.
C11_RSquared ==
    /\ IsSuccess =>
         LET b == response.body
             n == Len(SentY)
             T == NTimesSsTot(SentY)
             R == SumOfSquares(b.residuals)
         IN  /\ AllEqual(SentY) <=> T = 0
             /\ T = 0 => b.r_squared = <<0, 1>>
             /\ T # 0 => /\ b.r_squared[2] # 0
                         /\ b.r_squared[1] * T = b.r_squared[2] * (T - n * R)
    /\ /\ Responded /\ "Evaluate" \in Range(stages)
       /\ data.y_data.t = "arr" /\ AllEqual(SentY)
       => IsSuccess

\* C11 witness: identical y values off the fitted curve, answered with
\* r_squared = 0
C11_Witness ==
    /\ IsSuccess /\ AllEqual(SentY)
    /\ SumOfSquares(response.body.residuals) # 0
    /\ response.body.r_squared = <<0, 1>>

\* the uncertainty the caller sent for point i (a one-entry list stands for
\* every point when curve_fit broadcasts it)
SentErr(i) == IF Len(data.y_errors.v) = 1 THEN data.y_errors.v[1] ELSE data.y_errors.v[i]

RECURSIVE Product(_)
Product(s) == IF s = <<>> THEN 1 ELSE s[1] * Product(Tail(s))

\* C12: in a success response chi_squared is the sum over the points of
\* (residual / uncertainty) squared when y-uncertainties were supplied, and
\* exactly SS_res, the sum of the squared residuals, when they were not.
C12_ChiSquared ==
    IsSuccess =>
        LET b == response.body
            I == DOMAIN b.residuals
            s2 == [i \in I |-> SentErr(i) * SentErr(i)]
            D == Product(s2)
        IN  /\ ~Supplied => b.chi_squared = <<SumOfSquares(b.residuals), 1>>
            /\ Supplied /\ D # 0 =>
                 /\ b.chi_squared[2] # 0
                 /\ b.chi_squared[1] * D =
                      b.chi_squared[2]
                        * ISum([i \in I |-> b.residuals[i] * b.residuals[i] * (D \div s2[i])])

\* C12 witness: a weighted fit with uncertainties 2 and non-zero residuals,
\* whose chi_squared is SS_res / 4
C12_Witness ==
    /\ IsSuccess /\ Supplied /\ Len(data.y_errors.v) = Len(SentY)
    /\ \A i \in DOMAIN data.y_errors.v : data.y_errors.v[i] = 2
    /\ SumOfSquares(response.body.residuals) # 0
    /\ response.body.chi_squared # <<SumOfSquares(response.body.residuals), 1>>

\* what C13 lists as a y_errors list that breaks the request invariant (the
\* empty list, which C26 reads as no uncertainties, is left out)
C13_BadErrors ==
    /\ Supplied /\ Len(data.y_errors.v) >= 1
    /\ \/ Len(data.y_errors.v) # SentLen(data.y_data)
       \/ \E i \in DOMAIN data.y_errors.v : data.y_errors.v[i] <= 0

\* C13 as claimed: a request whose y_errors is supplied but has another
\* length than y_data, or has an entry that is not > 0, is refused as a
\* validation error before the regression and never answered with a success.
C13_ErrorsValidated ==
    WellTyped /\ C13_BadErrors =>
        /\ ~IsSuccess
        /\ calls.curve_fit = 0
        /\ Responded => ErrorKind = "ValidationError"

\* the outcomes of the curve_fit calls made so far
LibOutcomes == {lib[k] : k \in DOMAIN lib}

Answered ==
    {served[i] : i \in DOMAIN served}
        \cup (IF Responded THEN {[data |-> data, response |-> response]} ELSE {})

Succeeded(a) == a.response.status = 200

\* w is a linear fit with y_errors all equal to one value, u the fit of the
\* same request without y_errors
Twin(w, u) ==
    /\ w.data.t = "object" /\ w.data.y_errors.t = "arr"
    /\ w.data.model \in {Absent, Str("linear")}
    /\ w.data.y_data.t = "arr"
    /\ Len(w.data.y_errors.v) = Len(w.data.y_data.v)
    /\ \A i \in DOMAIN w.data.y_errors.v : w.data.y_errors.v[i] = w.data.y_errors.v[1]
    /\ u.data = [w.data EXCEPT !.y_errors = Absent]

\* C15 as claimed: a linear fit with y_errors all equal to one value sigma
\* and the fit of the same data without y_errors return the same fitted
\* parameters, their reduced_chi_squared values differ, and p_value is null
\* in the unweighted call.
C15_ReducedChi2Differs ==
    \A w, u \in Answered :
        Twin(w, u) /\ Succeeded(w) /\ Succeeded(u) =>
            /\ w.response.body.parameters = u.response.body.parameters
            /\ w.response.body.reduced_chi_squared # u.response.body.reduced_chi_squared
            /\ u.response.body.p_value = Null

\* C15 amended: the two calls return the same fitted parameters; the
\* reduced_chi_squared of the weighted call is that of the unweighted call
\* divided by sigma squared, so the two differ exactly when sigma is not 1,
\* the residuals are not all zero and dof > 0; p_value is null in the
\* unweighted call and a number in the weighted call exactly when dof > 0.
C15_UniformSigma ==
    \A w, u \in Answered :
        Twin(w, u) /\ Succeeded(w) /\ Succeeded(u) =>
            LET W == w.response.body
                U == u.response.body
                sg == w.data.y_errors.v[1]
            IN  /\ W.parameters = U.parameters
                /\ W.dof = U.dof
                /\ U.dof > 0 =>
                     /\ W.reduced_chi_squared[2] # 0 /\ U.reduced_chi_squared[2] # 0
                     /\ W.reduced_chi_squared[1] * sg * sg * U.reduced_chi_squared[2]
                          = U.reduced_chi_squared[1] * W.reduced_chi_squared[2]
                /\ U.dof <= 0 =>
                     W.reduced_chi_squared = Inf /\ U.reduced_chi_squared = Inf
                /\ W.reduced_chi_squared # U.reduced_chi_squared
                     <=> sg # 1 /\ SumOfSquares(U.residuals) # 0 /\ U.dof > 0
                /\ U.p_value = Null
                /\ W.p_value # Null <=> W.dof > 0

\* C15 witness: the two calls answered, sigma = 2, residuals not zero and
\* dof > 0, with different reduced_chi_squared
C15_Witness ==
    \E w, u \in Answered :
        /\ Twin(w, u) /\ Succeeded(w) /\ Succeeded(u)
        /\ w.data.y_errors.v[1] = 2 /\ u.response.body.dof > 0
        /\ SumOfSquares(u.response.body.residuals) # 0
        /\ w.response.body.reduced_chi_squared # u.response.body.reduced_chi_squared
        /\ w.response.body.p_value # Null

\* the request of C16: x = [0,1,2,3], y = [1,3,5,7], model linear and no
\* uncertainties
C16_Request ==
    /\ HasBody
    /\ data.x_data = Arr(<<0, 1, 2, 3>>) /\ data.y_data = Arr(<<1, 3, 5, 7>>)
    /\ data.y_errors \in {Absent, Null}
    /\ data.model \in {Absent, Str("linear")}

\* C16: the linear fit of x = [0,1,2,3], y = [1,3,5,7] without uncertainties
\* is answered with a success whose parameters are a = 2, b = 1, with
\* r_squared = 1, chi_squared = 0, dof = 2 and p_value null.
C16_ExactLine ==
    C16_Request /\ Responded =>
        /\ IsSuccess
        /\ response.body.parameter_names = <<"a", "b">>
        /\ response.body.parameters = <<2, 1>>
        /\ response.body.r_squared = <<1, 1>>
        /\ response.body.chi_squared = <<0, 1>>
        /\ response.body.dof = 2
        /\ response.body.p_value = Null

\* C16 witness: that request, answered with a = 2, b = 1
C16_Witness ==
    /\ C16_Request /\ pc = "done" /\ IsSuccess
    /\ response.body.parameters = <<2, 1>> /\ response.body.residuals = <<0, 0, 0, 0>>

\* C17: two requests with identical input are answered identically: the same
\* success or error outcome, and in a success the same parameters,
\* uncertainties and residuals (the whole response is the same), whatever
\* requests were answered before or between them.
C17_Deterministic ==
    \A a, b \in Answered :
        a.data = b.data =>
            /\ a.response.status = b.response.status
            /\ a.response = b.response
            /\ Succeeded(a) =>
                 /\ a.response.body.parameters = b.response.body.parameters
                 /\ a.response.body.uncertainties = b.response.body.uncertainties
                 /\ a.response.body.residuals = b.response.body.residuals

\* C17 witness: a fit the optimizer could have answered in several ways,
\* answered a second time after another request was served in between
C17_Witness ==
    /\ Len(served) = 2 /\ IsSuccess
    /\ served[1].data = data /\ served[2].data # data
    /\ SumOfSquares(response.body.residuals) # 0
    /\ served[1].response = response

\* the requests answered so far by either of the two calls in flight
AnsweredPar ==
    Answered
        \cup (IF other.response # None
              THEN {[data |-> other.data, response |-> other.response]} ELSE {})

\* a step leaves the request body, compiled model, result and response of
\* the other call as they were
OtherUntouched ==
    /\ other'.data = other.data /\ other'.model = other.model
    /\ other'.result = other.result /\ other'.response = other.response

\* a step exchanges the two calls, each keeping what it had
FramesExchanged ==
    /\ other'.data = data /\ other'.model = model
    /\ other'.result = result /\ other'.response = response
    /\ data' = other.data /\ model' = other.model
    /\ result' = other.result /\ response' = other.response

\* C18: with two requests in flight and their statements interleaved in
\* any order, every request is answered as the same request is answered
\* when it runs alone (all answers to one request body are the same
\* response), and no statement of one request changes the request body,
\* compiled model, result or response of the other.
C18_Isolated ==
    /\ [](\A a, b \in AnsweredPar : a.data = b.data => a.response = b.response)
    /\ [][OtherUntouched \/ FramesExchanged]_vars

\* C18 witness: a fit answered as it was answered before, while the other
\* call, on another request, stands between compiling its model and the
\* regression
C18_Witness ==
    /\ IsSuccess /\ served # <<>> /\ served[1].data = data
    /\ served[1].response = response
    /\ other.pc \in {"guess", "regress"} /\ other.data # data
    /\ other.model # None /\ other.model # model

\* the step at the regression: one call of curve_fit, whose result goes to
\* the evaluation or whose exception is the answer
RegressionStep ==
    pc = "regress" =>
        /\ calls'.curve_fit = 1
        /\ \/ pc' = "evaluate" /\ response' = None
           \/ /\ pc' = "done" /\ response'.status = 400
              /\ response'.body.error.msg = "Fitting failed: "

\* from the regression on, the initial guess stays as it was chosen
GuessKept == (pc \in {"regress", "evaluate", "respond", "done"}) => (p0' = p0)

\* C19: within one request curve_fit is called at most once; the step that
\* calls it either hands its result to the evaluation or, when it raised,
\* answers the request with the regression error at once, and the initial
\* guess is never changed after it was chosen.
C19_NoRetry ==
    /\ [](/\ calls.curve_fit <= 1
          /\ Cardinality({i \in DOMAIN stages : stages[i] = "Regress"}) <= 1)
    /\ [][RegressionStep /\ GuessKept]_vars

\* C19 witness: a failed regression of a custom model with the caller's
\* initial guess, answered after one call of curve_fit
C19_Witness ==
    /\ pc = "done" /\ IsFailure /\ calls.curve_fit = 1
    /\ response.body.error.msg = "Fitting failed: "
    /\ p0 # None /\ SentSelector = "custom"

\* the parameter name list C20 gives for each built-in selector
ClaimedNames ==
    [linear |-> <<"a", "b">>, quadratic |-> <<"a", "b", "c">>,
     cubic |-> <<"a", "b", "c", "d">>, power |-> <<"a", "b">>,
     exponential |-> <<"a", "b">>, sinusoidal |-> <<"A", "ω", "φ", "D">>]

\* C20: the built-in models are the six selectors linear, quadratic, cubic,
\* power, exponential and sinusoidal, each with the fixed parameter names
\* [a,b], [a,b,c], [a,b,c,d], [a,b], [a,b], [A,ω,φ,D]: a compiled model that
\* is not custom is one of the six with that list, a success response for a
\* built-in selector has exactly that list as parameter_names whatever the
\* data, and the length of the list is the number of arguments of the model
\* function after x.
C20_BuiltinNames ==
    /\ model # None /\ model.kind # "custom" =>
         /\ model.kind \in DOMAIN ClaimedNames
         /\ model.kind = SentSelector
         /\ param_names = ClaimedNames[model.kind]
         /\ Len(param_names) = Len(model.args) - 1
         /\ model.args[1] = "x"
    /\ IsSuccess /\ SentSelector \in DOMAIN ClaimedNames =>
         /\ response.body.parameter_names = ClaimedNames[SentSelector]
         /\ Len(response.body.parameter_names) = Len(model.args) - 1
         /\ Len(response.body.parameters) = Len(ClaimedNames[SentSelector])

\* C20 witness: a sinusoidal fit answered with the names A, ω, φ, D
C20_Witness ==
    /\ IsSuccess /\ SentSelector = "sinusoidal"
    /\ response.body.parameter_names = <<"A", "ω", "φ", "D">>
    /\ Len(model.args) = 5

\* the starting vector C21 gives for each selector but sinusoidal
ClaimedP0 ==
    CASE SentSelector \in {"linear", "quadratic", "cubic"} -> None
      [] SentSelector = "power" -> [t |-> "list", v |-> << <<1, 1>>, <<1, 1>> >>]
      [] SentSelector = "exponential" -> [t |-> "list", v |-> << <<1, 1>>, <<1, 10>> >>]
      [] SentSelector = "custom" ->
            IF data.initial_guess.t = "arr"
            THEN [t |-> "list", v |-> data.initial_guess.v]
            ELSE None

\* C21: the starting vector chosen by the Guess stage and handed to
\* curve_fit is None for linear, quadratic and cubic, [1,1] for power,
\* [1,0.1] for exponential and, for custom, the caller's initial_guess if
\* the request has one and None otherwise; the initial_guess of a request
\* for a built-in model is not used.
C21_StartingVector ==
    "Guess" \in Range(stages) /\ SentSelector # "sinusoidal" =>
        /\ p0 = ClaimedP0
        /\ \A k \in DOMAIN lib : k.p0 = ClaimedP0

\* C21 witness: a linear fit whose request carried an initial_guess,
\* regressed from the optimizer's default
C21_Witness ==
    /\ IsSuccess /\ SentSelector = "linear" /\ data.initial_guess.t = "arr"
    /\ calls.curve_fit = 1 /\ p0 = None
    /\ \A k \in DOMAIN lib : k.p0 = None

\* the x values the caller sent
SentX == data.x_data.v

\* the largest and the smallest entry of a non-empty sequence
Largest(s) == CHOOSE v \in Range(s) : \A w \in Range(s) : w <= v

Smallest(s) == CHOOSE v \in Range(s) : \A w \in Range(s) : v <= w

\* C22: for the sinusoidal model the Guess stage chooses the starting vector
\* [(max(y)-min(y))/2, 2*pi/(max(x)-min(x)), 0, mean(y)], with 1 for the
\* second entry when all x values are equal, and hands it to curve_fit; the
\* stage raises nothing, so the request goes on to the regression.
C22_SinusoidalGuess ==
    /\ "Guess" \in Range(stages) /\ SentSelector = "sinusoidal" =>
         LET span == Largest(SentX) - Smallest(SentX)
             amp == p0.v[1]
             mean == p0.v[4]
         IN  /\ p0.t = "list" /\ Len(p0.v) = 4
             /\ amp[2] # 0 /\ 2 * amp[1] = amp[2] * (Largest(SentY) - Smallest(SentY))
             /\ span # 0 => p0.v[2] = [t |-> "2pi/", span |-> span]
             /\ span = 0 => p0.v[2] = <<1, 1>>
             /\ p0.v[3] = <<0, 1>>
             /\ mean[2] # 0 /\ mean[1] * Len(SentY) = mean[2] * ISum(SentY)
             /\ \A k \in DOMAIN lib : k.p0 = p0
             /\ stages[Len(stages)] = "Guess" => pc = "regress" /\ ~Responded
    /\ pc = "guess" /\ model_type = "sinusoidal" => ENABLED Guess

\* C22 witness: a sinusoidal request whose x values are all equal, past the
\* Guess stage with frequency guess 1
C22_Witness ==
    /\ "Guess" \in Range(stages) /\ SentSelector = "sinusoidal"
    /\ Largest(SentX) = Smallest(SentX)
    /\ p0.v[2] = <<1, 1>> /\ p0.v[3] = <<0, 1>>

\* C23: in a success response parameters, uncertainties and parameter_names
\* all have length n_params, entry i of each belonging to the i-th argument
\* of the model function after x (uncertainties[i] is the square root of the
\* i-th diagonal entry of the covariance), and residuals has length n_data
\* with residuals[i] = y_data[i] - model(x_data[i]) in the order sent.
C23_Aligned ==
    IsSuccess =>
        LET b == response.body
        IN  /\ Len(b.parameters) = b.n_params
            /\ Len(b.uncertainties) = b.n_params
            /\ Len(b.parameter_names) = b.n_params
            /\ Len(model.args) = b.n_params + 1
            /\ model.kind = "custom" =>
                 \A i \in 1..b.n_params : model.args[i + 1] = b.parameter_names[i]
            /\ \A i \in 1..b.n_params :
                 b.uncertainties[i] = [t |-> "sqrt", of |-> <<"pcov", i, i>>]
            /\ b.n_data = Len(SentX) /\ Len(b.residuals) = b.n_data
            /\ \A i \in 1..b.n_data :
                 b.residuals[i] = SentY[i] - ModelAt(model, SentX[i], b.parameters)

\* C23 witness: a three-parameter fit of four points with residuals that
\* are neither all zero nor symmetric
C23_Witness ==
    /\ IsSuccess /\ response.body.n_params = 3 /\ response.body.n_data = 4
    /\ response.body.residuals[1] # 0
    /\ response.body.residuals[1] # response.body.residuals[4]
    /\ response.body.residuals[1] # -response.body.residuals[1]

\* a request that fails input validation: malformed (no JSON object, a data
\* value that is not a list of numbers, a selector that is not a string) or
\* inconsistent (what C3 lists)
C24_FailsValidation == ~WellTyped \/ C3_Invalid

\* C24 as claimed: every request that fails input validation is answered
\* with a client-error status (4xx), a server-error status being kept for
\* internal faults.
C24_ClientErrorForInvalid ==
    Responded /\ C24_FailsValidation =>
        response.status \in 400..499

\* the expression texts of the model the parser refuses
TextsRefused == {"a*x+", "(a*x"}

\* C25: a custom expression the parser refuses ends the request with the
\* InvalidExpressionError message "Invalid custom expression: " followed by
\* the parser's own message, curve_fit is never called and neither Guess nor
\* Regress runs; that message is given for no other request.
C25_InvalidExpression ==
    /\ /\ DataValid /\ SentSelector = "custom"
       /\ data.custom_expr.t = "str" /\ data.custom_expr.v \in TextsRefused
       => /\ calls.curve_fit = 0
          /\ "Guess" \notin Range(stages) /\ "Regress" \notin Range(stages)
          /\ pc \notin {"guess", "regress", "evaluate", "respond"}
          /\ Responded =>
               /\ response.status = 400 /\ ErrorKind = "InvalidExpressionError"
               /\ response.body.error.detail = "SympifyError: could not parse"
               /\ calls.sympify = 1
    /\ IsFailure /\ response.status = 400 /\ ErrorKind = "InvalidExpressionError" =>
          /\ SentSelector = "custom" /\ data.custom_expr.t = "str"
          /\ data.custom_expr.v \in TextsRefused

\* C25 witness: the text a*x+ refused by the parser and answered
C25_Witness ==
    /\ pc = "done" /\ DataValid /\ SentSelector = "custom"
    /\ data.custom_expr = Str("a*x+")
    /\ ErrorKind = "InvalidExpressionError" /\ calls.sympify = 1

\* the request sent y_errors as a non-empty sequence
NonEmptyErrors == data.y_errors.t = "arr" /\ Len(data.y_errors.v) >= 1

\* C26 as claimed: a request is weighted exactly when y_errors is a non-empty
\* sequence: from the regression on, curve_fit is called with sigma and
\* absolute_sigma, chi-squared divides by the squared uncertainties and the
\* p-value may be computed if and only if it is; so an omitted, null or empty
\* y_errors is fitted without weights and its exact linear data succeed.
C26_WeightedIffNonEmpty ==
    WellTyped /\ pc \in {"regress", "evaluate", "respond", "done"}
              /\ "Guess" \in Range(stages) =>
        LET c == CurveFitCall(model, x_data, y_data, y_errors, p0)
        IN  /\ c.absolute_sigma <=> NonEmptyErrors
            /\ c.sigma # None <=> NonEmptyErrors
            /\ (y_errors # None) <=> NonEmptyErrors
            /\ IsSuccess /\ response.body.p_value # Null => NonEmptyErrors

\* the first defect of the request in the order length mismatch, too few
\* points, unknown selector, as the message that reports it ("" when none)
FirstDefect ==
    IF SentLen(data.x_data) # SentLen(data.y_data)
    THEN "x_data and y_data must have the same length"
    ELSE IF SentLen(data.x_data) < 2 THEN "At least 2 data points are required"
    ELSE IF SentSelector = "unknown" THEN "Unknown model type: "
    ELSE ""

\* C27: the selector is matched in any letter case and is linear when the
\* request has no model field; an answered request with a length mismatch,
\* fewer than 2 points or an unknown selector reports the first of these in
\* that order, and none of the three messages is given to a request without
\* that defect.
C27_SelectorAndOrder ==
    WellTyped =>
        /\ pc \notin {"idle", "parse"} => model_type = SentSelector
                                            \/ (SentSelector = "unknown" /\ model_type = data.model.v)
        /\ "Compile" \in Range(stages) /\ SentSelector \in BuiltinNames =>
               model.kind = SentSelector
        /\ Responded /\ FirstDefect # "" =>
               /\ response.status = 400
               /\ response.body.error.msg = FirstDefect
               /\ "Compile" \notin Range(stages)
        /\ Responded /\ FirstDefect = "" /\ IsFailure =>
               response.body.error.msg \notin
                   {"x_data and y_data must have the same length",
                    "At least 2 data points are required", "Unknown model type: "}

\* C27 witness: one point against none under an unknown selector, answered
\* with the length mismatch
C27_Witness ==
    /\ pc = "done" /\ WellTyped
    /\ SentLen(data.x_data) = 1 /\ SentLen(data.y_data) = 0
    /\ SentSelector = "unknown"
    /\ response.body.error.msg = "x_data and y_data must have the same length"

\* C27 witness of the letter case: LINEAR fitted as the linear model
C27_WitnessCase ==
    /\ IsSuccess /\ data.model = Str("LINEAR") /\ model.kind = "linear"

\* max(1, max_retries + 1), the attempts C28 allows a call of ask()
ClaimedAttempts == IF ask.max_retries >= 1 THEN ask.max_retries + 1 ELSE 1

\* a transient provider error: a rate limit, a connection error or timeout,
\* or a response whose status is 5xx
Transient(e) ==
    \/ e.status_code = 429
    \/ e.cls \in {"ConnectError", "ReadTimeout", "APIConnectionError", "APITimeoutError"}
    \/ e.status_code \in 500..599

\* the RuntimeError of C28 and C29
IsBusy(o) == o.t = "raise" /\ o.exc.cls = "RuntimeError" /\ o.exc.text = BusyText

\* C28 as claimed: a call of ask() makes at most max(1, max_retries + 1)
\* provider calls; it returns the first reply (stripped; "" for None) and
\* calls no more; the wait after the failed attempt numbered i is 2^i
\* seconds and precedes every further call; and when all the attempts were
\* made and each failed with a transient error, it raises the busy
\* RuntimeError whose cause is the last provider error.
C28_BoundedRetries ==
    ask.pc # "idle" =>
        /\ ask.calls <= ClaimedAttempts
        /\ ask.calls = Len(ask.raised) + Len(ask.replies)
        /\ Len(ask.replies) <= 1
        /\ ask.replies # <<>> =>
              /\ ask.pc = "done" /\ ask.outcome.t = "return"
              /\ ask.outcome.value =
                    Strip(IF ask.replies[1] = None THEN <<>> ELSE ask.replies[1].v)
        /\ ask.pc = "done" /\ ask.outcome.t = "return" => ask.replies # <<>>
        /\ \A i \in DOMAIN ask.slept : ask.slept[i] = 2 ^ (i - 1)
        /\ ask.pc # "done" => Len(ask.slept) = ask.calls
        /\ Len(ask.slept) >= ask.calls - 1
        /\ /\ ask.pc = "done" /\ ask.calls = ClaimedAttempts
           /\ Len(ask.raised) = ask.calls
           /\ \A i \in DOMAIN ask.raised : Transient(ask.raised[i])
           => /\ IsBusy(ask.outcome)
              /\ ask.outcome.cause = ask.raised[Len(ask.raised)]

\* every call of ask() ends
C28_Terminates == <>[](ask.pc = "done")

\* C29 as claimed: only transient provider errors are followed by a sleep and
\* a further attempt; any other provider error leaves ask() as it is on the
\* attempt that raised it, with no sleep and no further provider call, and is
\* never replaced by the busy RuntimeError.
C29_OnlyTransientRetried ==
    ask.pc # "idle" =>
        \A i \in DOMAIN ask.raised :
            ~Transient(ask.raised[i]) =>
                /\ i = Len(ask.raised) /\ ask.calls = i
                /\ Len(ask.slept) = i - 1
                /\ ask.pc = "done"
                /\ ask.outcome = [t |-> "raise", exc |-> ask.raised[i], cause |-> None]

\* the margin a call asked for, or the default of the function, in
\* hundredths of a hertz
AskedMargin ==
    IF dominant.min_margin_hz = None THEN DefaultMargin(dominant.freqs)
    ELSE dominant.min_margin_hz.v * 100

\* bin i (from 1) is an entry of the returned list
Selected(i) == \E k \in DOMAIN dominant.ret : dominant.ret[k].idx = i - 1

\* C30 as claimed: the returned list has at most n_top entries, each the
\* frequency and magnitude of a bin with frequency > 0, any two at least
\* min_margin_hz apart, in non-increasing order of magnitude; a bin that is
\* not returned has a non-positive frequency, or lies within the margin of a
\* returned bin of no smaller magnitude, or the list is full; and an empty
\* spectrum returns the empty list.
C30_DominantFrequencies ==
    dominant.pc = "done" =>
        LET ret == dominant.ret
        IN  /\ Len(ret) <= dominant.n_top
            /\ \A k \in DOMAIN ret :
                  /\ ret[k].idx + 1 \in DOMAIN dominant.freqs
                  /\ ret[k].freq = dominant.freqs[ret[k].idx + 1]
                  /\ ret[k].magnitude = dominant.magnitudes[ret[k].idx + 1]
                  /\ ret[k].freq > 0
            /\ \A j, k \in DOMAIN ret :
                  j # k => Abs(ret[j].freq - ret[k].freq) * 100 >= AskedMargin
            /\ \A j, k \in DOMAIN ret : j < k => ret[j].magnitude >= ret[k].magnitude
            /\ \A i \in DOMAIN dominant.freqs :
                  ~Selected(i) =>
                     \/ dominant.freqs[i] <= 0
                     \/ \E k \in DOMAIN ret :
                          /\ Abs(dominant.freqs[i] - ret[k].freq) * 100 < AskedMargin
                          /\ ret[k].magnitude >= dominant.magnitudes[i]
                     \/ Len(ret) >= dominant.n_top
            /\ dominant.freqs = <<>> => ret = <<>>










====
